---- MODULE Spec2Model ----
(***************************************************************************)
(* A model of the lina template engine (src/lina/__init__.py).             *)
(*                                                                         *)
(* Text is a sequence of one-character strings.  Python values are tagged  *)
(* records; dictionaries live in a heap and are referred to by address, so *)
(* that the in-place updates of __ExpandBlock and aliasing are visible.    *)
(* A TextStream is an object of a stream heap: the stream of a Template    *)
(* (self.__input) is shared by every pass over that Template.              *)
(* Rendering is a state machine: one step per iteration of the __Render    *)
(* loop, one per block instance, one per return.                           *)
(***************************************************************************)
EXTENDS Integers, Sequences, FiniteSets, TLC

(***************************************************************************)
(* Python values                                                           *)
(***************************************************************************)
NoneV == [t |-> "none"]
StrV(s) == [t |-> "str", s |-> s]
IntV(i) == [t |-> "int", i |-> i]
BoolV(b) == [t |-> "bool", b |-> b]
\* a float with one decimal digit, w.d (enough for isinstance(e, float))
FloatV(w, d) == [t |-> "float", w |-> w, d |-> d]
\* a reference to a dict of the heap
RefV(a) == [t |-> "ref", a |-> a]
ListV(l) == [t |-> "list", l |-> l]
\* a reference to an object of the heap (its attributes)
ObjV(a) == [t |-> "obj", a |-> a]
\* a str of n characters whose text the model does not compute (a docstring
\* of a method, a signature, the name of the class of an object)
TextV(n) == [t |-> "text", n |-> n]
\* the str a formatter makes of a value whose text the model does not compute
OpaqueV == [t |-> "opaque"]
\* the type named T
TypeV(T) == [t |-> "type", T |-> T]
\* the method n that the type owner defines, bound to self: a built-in method
\* (t is builtin_function_or_method) or a method-wrapper
BoundV(t, self, n, owner) == [t |-> t, self |-> self, n |-> n, owner |-> owner]
\* The other values a dotted path reaches are records tagged with the name
\* of their type:
\*   [t |-> "num"]: an int the model does not compute (a size or a flag of
\*     a type);
\*   [t |-> "tuple", l |-> l]: a tuple;
\*   [t |-> "dict"]: a dict with no key that is not of the heap;
\*   [t |-> "mappingproxy", T |-> T]: the namespace T.__dict__ of a type;
\*   [t |-> "GenericAlias", T |-> T, i |-> i]: the generic alias T[i];
\*   [t |-> k, owner |-> T, n |-> n]: the descriptor of n in the namespace
\*     of T, k the type of the descriptor.

IsNone(v) == v.t = "none"
IsStr(v) == v.t \in {"str", "text", "opaque"}
IsRef(v) == v.t = "ref"
IsList(v) == v.t = "list"

EmptyDict == [k \in {} |-> NoneV]
DictSet(d, k, v) == [x \in (DOMAIN d) \cup {k} |-> IF x = k THEN v ELSE d[x]]

(***************************************************************************)
(* Text helpers                                                            *)
(***************************************************************************)
Digits == <<"0", "1", "2", "3", "4", "5", "6", "7", "8", "9">>
HexDigits == <<"0", "1", "2", "3", "4", "5", "6", "7", "8", "9",
               "a", "b", "c", "d", "e", "f">>

RECURSIVE NatStr(_, _)
\* the digits of n >= 0 in the given base (10 or 16)
NatStr(n, base) ==
    LET d == IF base = 10 THEN Digits[(n % base) + 1] ELSE HexDigits[(n % base) + 1]
    IN IF n < base THEN <<d>> ELSE NatStr(n \div base, base) \o <<d>>

\* str(int)
IntStr(i) == IF i < 0 THEN <<"-">> \o NatStr(-i, 10) ELSE NatStr(i, 10)

\* hex(int): '0x..' or '-0x..'
PyHex(i) == IF i < 0 THEN <<"-", "0", "x">> \o NatStr(-i, 16)
            ELSE <<"0", "x">> \o NatStr(i, 16)

\* the characters whose uppercase form holds a character that a string of
\* this module cannot hold
UpperUnwritten == {"ÿ", "ƀ", "ƚ", "ƞ", "ǰ", "ʉ", "ʌ", "ΐ", "ΰ", "ϳ", "ր", "ց",
                   "ւ", "փ", "ք", "օ", "ֆ", "և", "ᲀ", "ᲁ", "ᲂ", "ᲃ", "ᲄ", "ᲅ",
                   "ᲆ", "ᲇ", "ᲈ", "ẖ", "ẗ", "ẘ", "ẙ", "ẛ", "ᾀ", "ᾁ", "ᾂ", "ᾃ",
                   "ᾄ", "ᾅ", "ᾆ", "ᾇ", "ᾈ", "ᾉ", "ᾊ", "ᾋ", "ᾌ", "ᾍ", "ᾎ", "ᾏ",
                   "ᾐ", "ᾑ", "ᾒ", "ᾓ", "ᾔ", "ᾕ", "ᾖ", "ᾗ", "ᾘ", "ᾙ", "ᾚ", "ᾛ",
                   "ᾜ", "ᾝ", "ᾞ", "ᾟ", "ᾠ", "ᾡ", "ᾢ", "ᾣ", "ᾤ", "ᾥ", "ᾦ", "ᾧ",
                   "ᾨ", "ᾩ", "ᾪ", "ᾫ", "ᾬ", "ᾭ", "ᾮ", "ᾯ", "ᾶ", "ᾷ", "ῆ", "ῇ",
                   "ῒ", "ΐ", "ῖ", "ῗ", "ῢ", "ΰ", "ῤ", "ῦ", "ῧ", "ῶ", "ῷ"}

\* str.upper() on one character: the text it becomes, one other character
\* or, for the last fourteen, several; a character without an uppercase
\* form stays
UpperChar(c) ==
    CASE c = "a" -> <<"A">> [] c = "b" -> <<"B">> [] c = "c" -> <<"C">>
      [] c = "d" -> <<"D">> [] c = "e" -> <<"E">> [] c = "f" -> <<"F">>
      [] c = "g" -> <<"G">> [] c = "h" -> <<"H">> [] c = "i" -> <<"I">>
      [] c = "j" -> <<"J">> [] c = "k" -> <<"K">> [] c = "l" -> <<"L">>
      [] c = "m" -> <<"M">> [] c = "n" -> <<"N">> [] c = "o" -> <<"O">>
      [] c = "p" -> <<"P">> [] c = "q" -> <<"Q">> [] c = "r" -> <<"R">>
      [] c = "s" -> <<"S">> [] c = "t" -> <<"T">> [] c = "u" -> <<"U">>
      [] c = "v" -> <<"V">> [] c = "w" -> <<"W">> [] c = "x" -> <<"X">>
      [] c = "y" -> <<"Y">> [] c = "z" -> <<"Z">> [] c = "µ" -> <<"Μ">>
      [] c = "à" -> <<"À">> [] c = "á" -> <<"Á">> [] c = "â" -> <<"Â">>
      [] c = "ã" -> <<"Ã">> [] c = "ä" -> <<"Ä">> [] c = "å" -> <<"Å">>
      [] c = "æ" -> <<"Æ">> [] c = "ç" -> <<"Ç">> [] c = "è" -> <<"È">>
      [] c = "é" -> <<"É">> [] c = "ê" -> <<"Ê">> [] c = "ë" -> <<"Ë">>
      [] c = "ì" -> <<"Ì">> [] c = "í" -> <<"Í">> [] c = "î" -> <<"Î">>
      [] c = "ï" -> <<"Ï">> [] c = "ð" -> <<"Ð">> [] c = "ñ" -> <<"Ñ">>
      [] c = "ò" -> <<"Ò">> [] c = "ó" -> <<"Ó">> [] c = "ô" -> <<"Ô">>
      [] c = "õ" -> <<"Õ">> [] c = "ö" -> <<"Ö">> [] c = "ø" -> <<"Ø">>
      [] c = "ù" -> <<"Ù">> [] c = "ú" -> <<"Ú">> [] c = "û" -> <<"Û">>
      [] c = "ü" -> <<"Ü">> [] c = "ý" -> <<"Ý">> [] c = "þ" -> <<"Þ">>
      [] c = "ƃ" -> <<"Ƃ">> [] c = "ƅ" -> <<"Ƅ">> [] c = "ƈ" -> <<"Ƈ">>
      [] c = "ƌ" -> <<"Ƌ">> [] c = "ƒ" -> <<"Ƒ">> [] c = "ƕ" -> <<"Ƕ">>
      [] c = "ƙ" -> <<"Ƙ">> [] c = "ơ" -> <<"Ơ">> [] c = "ƣ" -> <<"Ƣ">>
      [] c = "ƥ" -> <<"Ƥ">> [] c = "ƨ" -> <<"Ƨ">> [] c = "ƭ" -> <<"Ƭ">>
      [] c = "ư" -> <<"Ư">> [] c = "ƴ" -> <<"Ƴ">> [] c = "ƶ" -> <<"Ƶ">>
      [] c = "ƹ" -> <<"Ƹ">> [] c = "ƽ" -> <<"Ƽ">> [] c = "ƿ" -> <<"Ƿ">>
      [] c = "ǅ" -> <<"Ǆ">> [] c = "ǆ" -> <<"Ǆ">> [] c = "ǈ" -> <<"Ǉ">>
      [] c = "ǉ" -> <<"Ǉ">> [] c = "ǋ" -> <<"Ǌ">> [] c = "ǌ" -> <<"Ǌ">>
      [] c = "ǎ" -> <<"Ǎ">> [] c = "ǐ" -> <<"Ǐ">> [] c = "ǒ" -> <<"Ǒ">>
      [] c = "ǔ" -> <<"Ǔ">> [] c = "ǖ" -> <<"Ǖ">> [] c = "ǘ" -> <<"Ǘ">>
      [] c = "ǚ" -> <<"Ǚ">> [] c = "ǜ" -> <<"Ǜ">> [] c = "ǝ" -> <<"Ǝ">>
      [] c = "ǟ" -> <<"Ǟ">> [] c = "ǡ" -> <<"Ǡ">> [] c = "ǣ" -> <<"Ǣ">>
      [] c = "ǥ" -> <<"Ǥ">> [] c = "ǧ" -> <<"Ǧ">> [] c = "ǩ" -> <<"Ǩ">>
      [] c = "ǫ" -> <<"Ǫ">> [] c = "ǭ" -> <<"Ǭ">> [] c = "ǯ" -> <<"Ǯ">>
      [] c = "ǲ" -> <<"Ǳ">> [] c = "ǳ" -> <<"Ǳ">> [] c = "ǵ" -> <<"Ǵ">>
      [] c = "ǹ" -> <<"Ǹ">> [] c = "ǻ" -> <<"Ǻ">> [] c = "ǽ" -> <<"Ǽ">>
      [] c = "ǿ" -> <<"Ǿ">> [] c = "ʀ" -> <<"Ʀ">> [] c = "ʂ" -> <<"Ʂ">>
      [] c = "ʃ" -> <<"Ʃ">> [] c = "ʇ" -> <<"Ʇ">> [] c = "ʈ" -> <<"Ʈ">>
      [] c = "ʊ" -> <<"Ʊ">> [] c = "ʋ" -> <<"Ʋ">> [] c = "ʒ" -> <<"Ʒ">>
      [] c = "ʝ" -> <<"Ʝ">> [] c = "ʞ" -> <<"Ʞ">> [] c = "ά" -> <<"Ά">>
      [] c = "έ" -> <<"Έ">> [] c = "ή" -> <<"Ή">> [] c = "ί" -> <<"Ί">>
      [] c = "α" -> <<"Α">> [] c = "β" -> <<"Β">> [] c = "γ" -> <<"Γ">>
      [] c = "δ" -> <<"Δ">> [] c = "ε" -> <<"Ε">> [] c = "ζ" -> <<"Ζ">>
      [] c = "η" -> <<"Η">> [] c = "θ" -> <<"Θ">> [] c = "ι" -> <<"Ι">>
      [] c = "κ" -> <<"Κ">> [] c = "λ" -> <<"Λ">> [] c = "μ" -> <<"Μ">>
      [] c = "ν" -> <<"Ν">> [] c = "ξ" -> <<"Ξ">> [] c = "ο" -> <<"Ο">>
      [] c = "π" -> <<"Π">> [] c = "ρ" -> <<"Ρ">> [] c = "ς" -> <<"Σ">>
      [] c = "σ" -> <<"Σ">> [] c = "τ" -> <<"Τ">> [] c = "υ" -> <<"Υ">>
      [] c = "φ" -> <<"Φ">> [] c = "χ" -> <<"Χ">> [] c = "ψ" -> <<"Ψ">>
      [] c = "ω" -> <<"Ω">> [] c = "ϊ" -> <<"Ϊ">> [] c = "ϋ" -> <<"Ϋ">>
      [] c = "ό" -> <<"Ό">> [] c = "ύ" -> <<"Ύ">> [] c = "ώ" -> <<"Ώ">>
      [] c = "ϐ" -> <<"Β">> [] c = "ϑ" -> <<"Θ">> [] c = "ϕ" -> <<"Φ">>
      [] c = "ϖ" -> <<"Π">> [] c = "ϗ" -> <<"Ϗ">> [] c = "ϙ" -> <<"Ϙ">>
      [] c = "ϛ" -> <<"Ϛ">> [] c = "ϝ" -> <<"Ϝ">> [] c = "ϟ" -> <<"Ϟ">>
      [] c = "ϡ" -> <<"Ϡ">> [] c = "ϣ" -> <<"Ϣ">> [] c = "ϥ" -> <<"Ϥ">>
      [] c = "ϧ" -> <<"Ϧ">> [] c = "ϩ" -> <<"Ϩ">> [] c = "ϫ" -> <<"Ϫ">>
      [] c = "ϭ" -> <<"Ϭ">> [] c = "ϯ" -> <<"Ϯ">> [] c = "ϰ" -> <<"Κ">>
      [] c = "ϱ" -> <<"Ρ">> [] c = "ϲ" -> <<"Ϲ">> [] c = "ϵ" -> <<"Ε">>
      [] c = "ϸ" -> <<"Ϸ">> [] c = "ϻ" -> <<"Ϻ">> [] c = "ҁ" -> <<"Ҁ">>
      [] c = "ҋ" -> <<"Ҋ">> [] c = "ҍ" -> <<"Ҍ">> [] c = "ҏ" -> <<"Ҏ">>
      [] c = "ґ" -> <<"Ґ">> [] c = "ғ" -> <<"Ғ">> [] c = "ҕ" -> <<"Ҕ">>
      [] c = "җ" -> <<"Җ">> [] c = "ҙ" -> <<"Ҙ">> [] c = "қ" -> <<"Қ">>
      [] c = "ҝ" -> <<"Ҝ">> [] c = "ҟ" -> <<"Ҟ">> [] c = "ҡ" -> <<"Ҡ">>
      [] c = "ң" -> <<"Ң">> [] c = "ҥ" -> <<"Ҥ">> [] c = "ҧ" -> <<"Ҧ">>
      [] c = "ҩ" -> <<"Ҩ">> [] c = "ҫ" -> <<"Ҫ">> [] c = "ҭ" -> <<"Ҭ">>
      [] c = "ү" -> <<"Ү">> [] c = "ұ" -> <<"Ұ">> [] c = "ҳ" -> <<"Ҳ">>
      [] c = "ҵ" -> <<"Ҵ">> [] c = "ҷ" -> <<"Ҷ">> [] c = "ҹ" -> <<"Ҹ">>
      [] c = "һ" -> <<"Һ">> [] c = "ҽ" -> <<"Ҽ">> [] c = "ҿ" -> <<"Ҿ">>
      [] c = "ӂ" -> <<"Ӂ">> [] c = "ӄ" -> <<"Ӄ">> [] c = "ӆ" -> <<"Ӆ">>
      [] c = "ӈ" -> <<"Ӈ">> [] c = "ӊ" -> <<"Ӊ">> [] c = "ӌ" -> <<"Ӌ">>
      [] c = "ӎ" -> <<"Ӎ">> [] c = "ӏ" -> <<"Ӏ">> [] c = "ӑ" -> <<"Ӑ">>
      [] c = "ӓ" -> <<"Ӓ">> [] c = "ӕ" -> <<"Ӕ">> [] c = "ӗ" -> <<"Ӗ">>
      [] c = "ә" -> <<"Ә">> [] c = "ӛ" -> <<"Ӛ">> [] c = "ӝ" -> <<"Ӝ">>
      [] c = "ӟ" -> <<"Ӟ">> [] c = "ӡ" -> <<"Ӡ">> [] c = "ӣ" -> <<"Ӣ">>
      [] c = "ӥ" -> <<"Ӥ">> [] c = "ӧ" -> <<"Ӧ">> [] c = "ө" -> <<"Ө">>
      [] c = "ӫ" -> <<"Ӫ">> [] c = "ӭ" -> <<"Ӭ">> [] c = "ӯ" -> <<"Ӯ">>
      [] c = "ӱ" -> <<"Ӱ">> [] c = "ӳ" -> <<"Ӳ">> [] c = "ӵ" -> <<"Ӵ">>
      [] c = "ӷ" -> <<"Ӷ">> [] c = "ӹ" -> <<"Ӹ">> [] c = "ӻ" -> <<"Ӻ">>
      [] c = "ӽ" -> <<"Ӽ">> [] c = "ӿ" -> <<"Ӿ">> [] c = "ა" -> <<"Ა">>
      [] c = "ბ" -> <<"Ბ">> [] c = "გ" -> <<"Გ">> [] c = "დ" -> <<"Დ">>
      [] c = "ე" -> <<"Ე">> [] c = "ვ" -> <<"Ვ">> [] c = "ზ" -> <<"Ზ">>
      [] c = "თ" -> <<"Თ">> [] c = "ი" -> <<"Ი">> [] c = "კ" -> <<"Კ">>
      [] c = "ლ" -> <<"Ლ">> [] c = "მ" -> <<"Მ">> [] c = "ნ" -> <<"Ნ">>
      [] c = "ო" -> <<"Ო">> [] c = "პ" -> <<"Პ">> [] c = "ჟ" -> <<"Ჟ">>
      [] c = "რ" -> <<"Რ">> [] c = "ს" -> <<"Ს">> [] c = "ტ" -> <<"Ტ">>
      [] c = "უ" -> <<"Უ">> [] c = "ფ" -> <<"Ფ">> [] c = "ქ" -> <<"Ქ">>
      [] c = "ღ" -> <<"Ღ">> [] c = "ყ" -> <<"Ყ">> [] c = "შ" -> <<"Შ">>
      [] c = "ჩ" -> <<"Ჩ">> [] c = "ც" -> <<"Ც">> [] c = "ძ" -> <<"Ძ">>
      [] c = "წ" -> <<"Წ">> [] c = "ჭ" -> <<"Ჭ">> [] c = "ხ" -> <<"Ხ">>
      [] c = "ჯ" -> <<"Ჯ">> [] c = "ჰ" -> <<"Ჰ">> [] c = "ჱ" -> <<"Ჱ">>
      [] c = "ჲ" -> <<"Ჲ">> [] c = "ჳ" -> <<"Ჳ">> [] c = "ჴ" -> <<"Ჴ">>
      [] c = "ჵ" -> <<"Ჵ">> [] c = "ჶ" -> <<"Ჶ">> [] c = "ჷ" -> <<"Ჷ">>
      [] c = "ჸ" -> <<"Ჸ">> [] c = "ჹ" -> <<"Ჹ">> [] c = "ჺ" -> <<"Ჺ">>
      [] c = "ჽ" -> <<"Ჽ">> [] c = "ჾ" -> <<"Ჾ">> [] c = "ჿ" -> <<"Ჿ">>
      [] c = "ᏸ" -> <<"Ᏸ">> [] c = "ᏹ" -> <<"Ᏹ">> [] c = "ᏺ" -> <<"Ᏺ">>
      [] c = "ᏻ" -> <<"Ᏻ">> [] c = "ᏼ" -> <<"Ᏼ">> [] c = "ᏽ" -> <<"Ᏽ">>
      [] c = "ᶎ" -> <<"Ᶎ">> [] c = "ẁ" -> <<"Ẁ">> [] c = "ẃ" -> <<"Ẃ">>
      [] c = "ẅ" -> <<"Ẅ">> [] c = "ẇ" -> <<"Ẇ">> [] c = "ẉ" -> <<"Ẉ">>
      [] c = "ẋ" -> <<"Ẋ">> [] c = "ẍ" -> <<"Ẍ">> [] c = "ẏ" -> <<"Ẏ">>
      [] c = "ẑ" -> <<"Ẑ">> [] c = "ẓ" -> <<"Ẓ">> [] c = "ẕ" -> <<"Ẕ">>
      [] c = "ạ" -> <<"Ạ">> [] c = "ả" -> <<"Ả">> [] c = "ấ" -> <<"Ấ">>
      [] c = "ầ" -> <<"Ầ">> [] c = "ẩ" -> <<"Ẩ">> [] c = "ẫ" -> <<"Ẫ">>
      [] c = "ậ" -> <<"Ậ">> [] c = "ắ" -> <<"Ắ">> [] c = "ằ" -> <<"Ằ">>
      [] c = "ẳ" -> <<"Ẳ">> [] c = "ẵ" -> <<"Ẵ">> [] c = "ặ" -> <<"Ặ">>
      [] c = "ẹ" -> <<"Ẹ">> [] c = "ẻ" -> <<"Ẻ">> [] c = "ẽ" -> <<"Ẽ">>
      [] c = "ế" -> <<"Ế">> [] c = "ề" -> <<"Ề">> [] c = "ể" -> <<"Ể">>
      [] c = "ễ" -> <<"Ễ">> [] c = "ệ" -> <<"Ệ">> [] c = "ỉ" -> <<"Ỉ">>
      [] c = "ị" -> <<"Ị">> [] c = "ọ" -> <<"Ọ">> [] c = "ỏ" -> <<"Ỏ">>
      [] c = "ố" -> <<"Ố">> [] c = "ồ" -> <<"Ồ">> [] c = "ổ" -> <<"Ổ">>
      [] c = "ỗ" -> <<"Ỗ">> [] c = "ộ" -> <<"Ộ">> [] c = "ớ" -> <<"Ớ">>
      [] c = "ờ" -> <<"Ờ">> [] c = "ở" -> <<"Ở">> [] c = "ỡ" -> <<"Ỡ">>
      [] c = "ợ" -> <<"Ợ">> [] c = "ụ" -> <<"Ụ">> [] c = "ủ" -> <<"Ủ">>
      [] c = "ứ" -> <<"Ứ">> [] c = "ừ" -> <<"Ừ">> [] c = "ử" -> <<"Ử">>
      [] c = "ữ" -> <<"Ữ">> [] c = "ự" -> <<"Ự">> [] c = "ỳ" -> <<"Ỳ">>
      [] c = "ỵ" -> <<"Ỵ">> [] c = "ỷ" -> <<"Ỷ">> [] c = "ỹ" -> <<"Ỹ">>
      [] c = "ỻ" -> <<"Ỻ">> [] c = "ỽ" -> <<"Ỽ">> [] c = "ỿ" -> <<"Ỿ">>
      [] c = "ᾰ" -> <<"Ᾰ">> [] c = "ᾱ" -> <<"Ᾱ">> [] c = "ι" -> <<"Ι">>
      [] c = "ῐ" -> <<"Ῐ">> [] c = "ῑ" -> <<"Ῑ">> [] c = "ῠ" -> <<"Ῠ">>
      [] c = "ῡ" -> <<"Ῡ">> [] c = "ῥ" -> <<"Ῥ">> [] c = "ↄ" -> <<"Ↄ">>
      [] c = "ⓐ" -> <<"Ⓐ">> [] c = "ⓑ" -> <<"Ⓑ">> [] c = "ⓒ" -> <<"Ⓒ">>
      [] c = "ⓓ" -> <<"Ⓓ">> [] c = "ⓔ" -> <<"Ⓔ">> [] c = "ⓕ" -> <<"Ⓕ">>
      [] c = "ⓖ" -> <<"Ⓖ">> [] c = "ⓗ" -> <<"Ⓗ">> [] c = "ⓘ" -> <<"Ⓘ">>
      [] c = "ⓙ" -> <<"Ⓙ">> [] c = "ⓚ" -> <<"Ⓚ">> [] c = "ⓛ" -> <<"Ⓛ">>
      [] c = "ⓜ" -> <<"Ⓜ">> [] c = "ⓝ" -> <<"Ⓝ">> [] c = "ⓞ" -> <<"Ⓞ">>
      [] c = "ⓟ" -> <<"Ⓟ">> [] c = "ⓠ" -> <<"Ⓠ">> [] c = "ⓡ" -> <<"Ⓡ">>
      [] c = "ⓢ" -> <<"Ⓢ">> [] c = "ⓣ" -> <<"Ⓣ">> [] c = "ⓤ" -> <<"Ⓤ">>
      [] c = "ⓥ" -> <<"Ⓥ">> [] c = "ⓦ" -> <<"Ⓦ">> [] c = "ⓧ" -> <<"Ⓧ">>
      [] c = "ⓨ" -> <<"Ⓨ">> [] c = "ⓩ" -> <<"Ⓩ">> [] c = "ⲁ" -> <<"Ⲁ">>
      [] c = "ⲃ" -> <<"Ⲃ">> [] c = "ⲅ" -> <<"Ⲅ">> [] c = "ⲇ" -> <<"Ⲇ">>
      [] c = "ⲉ" -> <<"Ⲉ">> [] c = "ⲋ" -> <<"Ⲋ">> [] c = "ⲍ" -> <<"Ⲍ">>
      [] c = "ⲏ" -> <<"Ⲏ">> [] c = "ⲑ" -> <<"Ⲑ">> [] c = "ⲓ" -> <<"Ⲓ">>
      [] c = "ⲕ" -> <<"Ⲕ">> [] c = "ⲗ" -> <<"Ⲗ">> [] c = "ⲙ" -> <<"Ⲙ">>
      [] c = "ⲛ" -> <<"Ⲛ">> [] c = "ⲝ" -> <<"Ⲝ">> [] c = "ⲟ" -> <<"Ⲟ">>
      [] c = "ⲡ" -> <<"Ⲡ">> [] c = "ⲣ" -> <<"Ⲣ">> [] c = "ⲥ" -> <<"Ⲥ">>
      [] c = "ⲧ" -> <<"Ⲧ">> [] c = "ⲩ" -> <<"Ⲩ">> [] c = "ⲫ" -> <<"Ⲫ">>
      [] c = "ⲭ" -> <<"Ⲭ">> [] c = "ⲯ" -> <<"Ⲯ">> [] c = "ⲱ" -> <<"Ⲱ">>
      [] c = "ⲳ" -> <<"Ⲳ">> [] c = "ⲵ" -> <<"Ⲵ">> [] c = "ⲷ" -> <<"Ⲷ">>
      [] c = "ⲹ" -> <<"Ⲹ">> [] c = "ⲻ" -> <<"Ⲻ">> [] c = "ⲽ" -> <<"Ⲽ">>
      [] c = "ⲿ" -> <<"Ⲿ">> [] c = "ⳁ" -> <<"Ⳁ">> [] c = "ⳃ" -> <<"Ⳃ">>
      [] c = "ⳅ" -> <<"Ⳅ">> [] c = "ⳇ" -> <<"Ⳇ">> [] c = "ⳉ" -> <<"Ⳉ">>
      [] c = "ⳋ" -> <<"Ⳋ">> [] c = "ⳍ" -> <<"Ⳍ">> [] c = "ⳏ" -> <<"Ⳏ">>
      [] c = "ⳑ" -> <<"Ⳑ">> [] c = "ⳓ" -> <<"Ⳓ">> [] c = "ⳕ" -> <<"Ⳕ">>
      [] c = "ⳗ" -> <<"Ⳗ">> [] c = "ⳙ" -> <<"Ⳙ">> [] c = "ⳛ" -> <<"Ⳛ">>
      [] c = "ⳝ" -> <<"Ⳝ">> [] c = "ⳟ" -> <<"Ⳟ">> [] c = "ⳡ" -> <<"Ⳡ">>
      [] c = "ⳣ" -> <<"Ⳣ">> [] c = "ⳬ" -> <<"Ⳬ">> [] c = "ⳮ" -> <<"Ⳮ">>
      [] c = "ⳳ" -> <<"Ⳳ">> [] c = "ꚁ" -> <<"Ꚁ">> [] c = "ꚃ" -> <<"Ꚃ">>
      [] c = "ꚅ" -> <<"Ꚅ">> [] c = "ꚇ" -> <<"Ꚇ">> [] c = "ꚉ" -> <<"Ꚉ">>
      [] c = "ꚋ" -> <<"Ꚋ">> [] c = "ꚍ" -> <<"Ꚍ">> [] c = "ꚏ" -> <<"Ꚏ">>
      [] c = "ꚑ" -> <<"Ꚑ">> [] c = "ꚓ" -> <<"Ꚓ">> [] c = "ꚕ" -> <<"Ꚕ">>
      [] c = "ꚗ" -> <<"Ꚗ">> [] c = "ꚙ" -> <<"Ꚙ">> [] c = "ꚛ" -> <<"Ꚛ">>
      [] c = "ꞁ" -> <<"Ꞁ">> [] c = "ꞃ" -> <<"Ꞃ">> [] c = "ꞅ" -> <<"Ꞅ">>
      [] c = "ꞇ" -> <<"Ꞇ">> [] c = "ꞌ" -> <<"Ꞌ">> [] c = "ꞑ" -> <<"Ꞑ">>
      [] c = "ꞓ" -> <<"Ꞓ">> [] c = "ꞔ" -> <<"Ꞔ">> [] c = "ꞗ" -> <<"Ꞗ">>
      [] c = "ꞙ" -> <<"Ꞙ">> [] c = "ꞛ" -> <<"Ꞛ">> [] c = "ꞝ" -> <<"Ꞝ">>
      [] c = "ꞟ" -> <<"Ꞟ">> [] c = "ꞡ" -> <<"Ꞡ">> [] c = "ꞣ" -> <<"Ꞣ">>
      [] c = "ꞥ" -> <<"Ꞥ">> [] c = "ꞧ" -> <<"Ꞧ">> [] c = "ꞩ" -> <<"Ꞩ">>
      [] c = "ꞵ" -> <<"Ꞵ">> [] c = "ꞷ" -> <<"Ꞷ">> [] c = "ꞹ" -> <<"Ꞹ">>
      [] c = "ꞻ" -> <<"Ꞻ">> [] c = "ꞽ" -> <<"Ꞽ">> [] c = "ꞿ" -> <<"Ꞿ">>
      [] c = "ꟁ" -> <<"Ꟁ">> [] c = "ꟃ" -> <<"Ꟃ">> [] c = "ꟈ" -> <<"Ꟈ">>
      [] c = "ꟊ" -> <<"Ꟊ">> [] c = "ꟑ" -> <<"Ꟑ">> [] c = "ꟗ" -> <<"Ꟗ">>
      [] c = "ꟙ" -> <<"Ꟙ">> [] c = "ꟶ" -> <<"Ꟶ">> [] c = "ꮀ" -> <<"Ꮀ">>
      [] c = "ꮁ" -> <<"Ꮁ">> [] c = "ꮂ" -> <<"Ꮂ">> [] c = "ꮃ" -> <<"Ꮃ">>
      [] c = "ꮄ" -> <<"Ꮄ">> [] c = "ꮅ" -> <<"Ꮅ">> [] c = "ꮆ" -> <<"Ꮆ">>
      [] c = "ꮇ" -> <<"Ꮇ">> [] c = "ꮈ" -> <<"Ꮈ">> [] c = "ꮉ" -> <<"Ꮉ">>
      [] c = "ꮊ" -> <<"Ꮊ">> [] c = "ꮋ" -> <<"Ꮋ">> [] c = "ꮌ" -> <<"Ꮌ">>
      [] c = "ꮍ" -> <<"Ꮍ">> [] c = "ꮎ" -> <<"Ꮎ">> [] c = "ꮏ" -> <<"Ꮏ">>
      [] c = "ꮐ" -> <<"Ꮐ">> [] c = "ꮑ" -> <<"Ꮑ">> [] c = "ꮒ" -> <<"Ꮒ">>
      [] c = "ꮓ" -> <<"Ꮓ">> [] c = "ꮔ" -> <<"Ꮔ">> [] c = "ꮕ" -> <<"Ꮕ">>
      [] c = "ꮖ" -> <<"Ꮖ">> [] c = "ꮗ" -> <<"Ꮗ">> [] c = "ꮘ" -> <<"Ꮘ">>
      [] c = "ꮙ" -> <<"Ꮙ">> [] c = "ꮚ" -> <<"Ꮚ">> [] c = "ꮛ" -> <<"Ꮛ">>
      [] c = "ꮜ" -> <<"Ꮜ">> [] c = "ꮝ" -> <<"Ꮝ">> [] c = "ꮞ" -> <<"Ꮞ">>
      [] c = "ꮟ" -> <<"Ꮟ">> [] c = "ꮠ" -> <<"Ꮠ">> [] c = "ꮡ" -> <<"Ꮡ">>
      [] c = "ꮢ" -> <<"Ꮢ">> [] c = "ꮣ" -> <<"Ꮣ">> [] c = "ꮤ" -> <<"Ꮤ">>
      [] c = "ꮥ" -> <<"Ꮥ">> [] c = "ꮦ" -> <<"Ꮦ">> [] c = "ꮧ" -> <<"Ꮧ">>
      [] c = "ꮨ" -> <<"Ꮨ">> [] c = "ꮩ" -> <<"Ꮩ">> [] c = "ꮪ" -> <<"Ꮪ">>
      [] c = "ꮫ" -> <<"Ꮫ">> [] c = "ꮬ" -> <<"Ꮬ">> [] c = "ꮭ" -> <<"Ꮭ">>
      [] c = "ꮮ" -> <<"Ꮮ">> [] c = "ꮯ" -> <<"Ꮯ">> [] c = "ꮰ" -> <<"Ꮰ">>
      [] c = "ꮱ" -> <<"Ꮱ">> [] c = "ꮲ" -> <<"Ꮲ">> [] c = "ꮳ" -> <<"Ꮳ">>
      [] c = "ꮴ" -> <<"Ꮴ">> [] c = "ꮵ" -> <<"Ꮵ">> [] c = "ꮶ" -> <<"Ꮶ">>
      [] c = "ꮷ" -> <<"Ꮷ">> [] c = "ꮸ" -> <<"Ꮸ">> [] c = "ꮹ" -> <<"Ꮹ">>
      [] c = "ꮺ" -> <<"Ꮺ">> [] c = "ꮻ" -> <<"Ꮻ">> [] c = "ꮼ" -> <<"Ꮼ">>
      [] c = "ꮽ" -> <<"Ꮽ">> [] c = "ꮾ" -> <<"Ꮾ">> [] c = "ꮿ" -> <<"Ꮿ">>
      [] c = "ß" -> <<"S", "S">> [] c = "ẚ" -> <<"A", "ʾ">>
      [] c = "ᾲ" -> <<"Ὰ", "Ι">> [] c = "ᾳ" -> <<"Α", "Ι">>
      [] c = "ᾴ" -> <<"Ά", "Ι">> [] c = "ᾼ" -> <<"Α", "Ι">>
      [] c = "ῂ" -> <<"Ὴ", "Ι">> [] c = "ῃ" -> <<"Η", "Ι">>
      [] c = "ῄ" -> <<"Ή", "Ι">> [] c = "ῌ" -> <<"Η", "Ι">>
      [] c = "ῲ" -> <<"Ὼ", "Ι">> [] c = "ῳ" -> <<"Ω", "Ι">>
      [] c = "ῴ" -> <<"Ώ", "Ι">> [] c = "ῼ" -> <<"Ω", "Ι">>
      [] OTHER -> <<c>>

\* the uppercase form of s can be written
UpperOk(s) == \A k \in 1..Len(s) : s[k] \notin UpperUnwritten

RECURSIVE Flatten(_, _, _)
\* concatenation of pieces[lo..hi]
Flatten(pieces, lo, hi) ==
    IF lo > hi THEN <<>>
    ELSE IF lo = hi THEN pieces[lo]
    ELSE Flatten(pieces, lo, (lo + hi) \div 2) \o Flatten(pieces, (lo + hi) \div 2 + 1, hi)

\* str.upper(): the uppercase forms of the characters, in order
UpperStr(s) ==
    CHOOSE r \in {Flatten(pieces, 1, Len(pieces)) :
                    pieces \in {[k \in 1..Len(s) |-> UpperChar(s[k])]}} : TRUE

RECURSIVE Replace(_, _, _)
\* str.replace(old, new) for a one-character old
Replace(s, old, new) ==
    IF s = <<>> THEN <<>>
    ELSE (IF Head(s) = old THEN new ELSE <<Head(s)>>) \o Replace(Tail(s), old, new)

RECURSIVE ReplaceWord(_, _, _)
\* str.replace(old, new) for any non-empty old, leftmost first
ReplaceWord(s, old, new) ==
    IF Len(s) < Len(old) THEN s
    ELSE IF SubSeq(s, 1, Len(old)) = old
         THEN new \o ReplaceWord(SubSeq(s, Len(old) + 1, Len(s)), old, new)
         ELSE <<Head(s)>> \o ReplaceWord(Tail(s), old, new)

\* str.find(c): the 0-based index of the first c, or -1
Find(s, c) ==
    IF \E k \in 1..Len(s) : s[k] = c
    THEN (CHOOSE k \in 1..Len(s) : s[k] = c /\ \A j \in 1..(k - 1) : s[j] # c) - 1
    ELSE -1

RECURSIVE Split(_, _)
\* str.split(c) for a one-character separator
Split(s, c) ==
    CHOOSE result \in
      { IF k = -1 THEN <<str>>
        ELSE <<SubSeq(str, 1, k)>> \o Split(SubSeq(str, k + 2, Len(str)), c) :
          str \in {s}, k \in {Find(s, c)} } : TRUE

RECURSIVE Spaces(_)
Spaces(n) == IF n <= 0 THEN <<>> ELSE <<" ">> \o Spaces(n - 1)

RECURSIVE Tabs(_)
\* '\t' * depth
Tabs(n) == IF n <= 0 THEN <<>> ELSE <<"\t">> \o Tabs(n - 1)

\* the characters int() accepts as a digit, by the digit's value + 1
DecimalDigits ==
    << {"0", "۰", "߀", "০", "૦", "௦", "೦", "෦", "໐", "႐", "០", "᧐", "᪀", "᪐", "᮰", "꣐", "꧐", "꧰", "꯰"},
       {"1", "۱", "߁", "১", "૧", "௧", "೧", "෧", "໑", "႑", "១", "᧑", "᪁", "᪑", "᮱", "꣑", "꧑", "꧱", "꯱"},
       {"2", "۲", "߂", "২", "૨", "௨", "೨", "෨", "໒", "႒", "២", "᧒", "᪂", "᪒", "᮲", "꣒", "꧒", "꧲", "꯲"},
       {"3", "۳", "߃", "৩", "૩", "௩", "೩", "෩", "໓", "႓", "៣", "᧓", "᪃", "᪓", "᮳", "꣓", "꧓", "꧳", "꯳"},
       {"4", "۴", "߄", "৪", "૪", "௪", "೪", "෪", "໔", "႔", "៤", "᧔", "᪄", "᪔", "᮴", "꣔", "꧔", "꧴", "꯴"},
       {"5", "۵", "߅", "৫", "૫", "௫", "೫", "෫", "໕", "႕", "៥", "᧕", "᪅", "᪕", "᮵", "꣕", "꧕", "꧵", "꯵"},
       {"6", "۶", "߆", "৬", "૬", "௬", "೬", "෬", "໖", "႖", "៦", "᧖", "᪆", "᪖", "᮶", "꣖", "꧖", "꧶", "꯶"},
       {"7", "۷", "߇", "৭", "૭", "௭", "೭", "෭", "໗", "႗", "៧", "᧗", "᪇", "᪗", "᮷", "꣗", "꧗", "꧷", "꯷"},
       {"8", "۸", "߈", "৮", "૮", "௮", "೮", "෮", "໘", "႘", "៨", "᧘", "᪈", "᪘", "᮸", "꣘", "꧘", "꧸", "꯸"},
       {"9", "۹", "߉", "৯", "૯", "௯", "೯", "෯", "໙", "႙", "៩", "᧙", "᪉", "᪙", "᮹", "꣙", "꧙", "꧹", "꯹"} >>

IsDigit(c) == \E k \in 1..10 : c \in DecimalDigits[k]
DigitVal(c) == (CHOOSE k \in 1..10 : c \in DecimalDigits[k]) - 1

RECURSIVE DigitsVal(_)
DigitsVal(s) == IF s = <<>> THEN 0
                ELSE 10 * DigitsVal(SubSeq(s, 1, Len(s) - 1)) + DigitVal(s[Len(s)])

\* the characters int() ignores before and after the number: \t, \n, \v,
\* \f, \r, the space, U+0085, U+00A0 and U+1680
Whitespace == {"\t", "\n", "", "\f", "\r", " ", "", " ", " "}

\* s without the whitespace before and after it
Strip(s) ==
    LET kept == {k \in 1..Len(s) : s[k] \notin Whitespace}
    IN IF kept = {} THEN <<>>
       ELSE SubSeq(s, CHOOSE k \in kept : \A j \in kept : k <= j,
                   CHOOSE k \in kept : \A j \in kept : k >= j)

\* the number without its sign
Unsigned(s) == IF s # <<>> /\ s[1] \in {"-", "+"} THEN Tail(s) ELSE s

\* int(text): whitespace around, an optional sign, and decimal digits with
\* single underscores between them; anything else is a ValueError
IntOk(s) ==
    \E body \in {Unsigned(Strip(s))} :
       /\ body # <<>>
       /\ IsDigit(body[1]) /\ IsDigit(body[Len(body)])
       /\ \A k \in 1..Len(body) : IsDigit(body[k]) \/ body[k] = "_"
       /\ \A k \in 1..(Len(body) - 1) : ~(body[k] = "_" /\ body[k + 1] = "_")
IntOf(s) ==
    LET number == DigitsVal(SelectSeq(Unsigned(Strip(s)), IsDigit))
    IN IF Strip(s)[1] = "-" THEN -number ELSE number

\* str(value) for the values whose text the model computes
StrOk(v) == v.t \in {"none", "str", "int", "bool", "float"}
PyStr(v) ==
    CASE v.t = "str" -> v.s
      [] v.t = "int" -> IntStr(v.i)
      [] v.t = "bool" -> IF v.b THEN <<"T", "r", "u", "e">>
                         ELSE <<"F", "a", "l", "s", "e">>
      [] v.t = "float" -> IntStr(v.w) \o <<".">> \o IntStr(v.d)
      [] v.t = "none" -> <<"N", "o", "n", "e">>
      [] OTHER -> <<"?">>

(***************************************************************************)
(* Exceptions                                                              *)
(***************************************************************************)
\* a position is (line, column); the filename is None throughout
Pos(line, column) == [line |-> line, column |-> column]
\* a TemplateException (or subclass) carrying a position
TemplateExc(type, pos) == [type |-> type, line |-> pos.line, column |-> pos.column]
\* any other Python exception (AssertionError, TypeError, ...)
PyExc(type) == [type |-> type, line |-> 0, column |-> 0]
NoExc == [type |-> "", line |-> 0, column |-> 0]

(***************************************************************************)
(* TextStream                                                              *)
(***************************************************************************)
\* the value Get and Peek return at the end of the stream (None)
EOS == ""

TextStream(text) == [text |-> text, offset |-> 0, line |-> 1, column |-> 1]

Reset(st) == [st EXCEPT !.offset = 0, !.line = 1, !.column = 1]

\* Get: the character read and the stream after it
Get(st) ==
    IF st.offset < Len(st.text)
    THEN LET c == st.text[st.offset + 1]
         IN [c |-> c,
             st |-> IF c = "\n"
                    THEN [st EXCEPT !.offset = @ + 1, !.column = 1, !.line = @ + 1]
                    ELSE [st EXCEPT !.offset = @ + 1]]
    ELSE [c |-> EOS, st |-> st]

Peek(st) == IF st.offset < Len(st.text) THEN st.text[st.offset + 1] ELSE EOS

IsAtEnd(st) == st.offset >= Len(st.text)

GetPosition(st) == Pos(st.line, st.column)

\* the assertions of Skip, Unget and Substring
SkipOk(st, length) == length >= 0 /\ st.offset + length < Len(st.text)
Skip(st, length) == [st EXCEPT !.offset = @ + length]

UngetOk(st) == st.offset > 0
Unget(st) == [st EXCEPT !.offset = @ - 1]

SubstringOk(st, start, end) == start >= 0 /\ end > start /\ end < Len(st.text)
Substring(st, start, end) == SubSeq(st.text, start + 1, end)

(***************************************************************************)
(* Formatters                                                              *)
(***************************************************************************)
\* the registry _formatters: alias -> class
FormatterAliases ==
    { <<<<"i", "n", "d", "e", "n", "t">>, "IndentFormatter">>,
      <<<<"l", "i", "s", "t", "-", "s", "e", "p", "a", "r", "a", "t", "o", "r">>,
        "ListSeparatorFormatter">>,
      <<<<"s", "e", "p", "a", "r", "a", "t", "o", "r">>, "ListSeparatorFormatter">>,
      <<<<"l", "-", "s">>, "ListSeparatorFormatter">>,
      <<<<"w", "i", "d", "t", "h">>, "WidthFormatter">>,
      <<<<"w">>, "WidthFormatter">>,
      <<<<"p", "r", "e", "f", "i", "x">>, "PrefixFormatter">>,
      <<<<"s", "u", "f", "f", "i", "x">>, "SuffixFormatter">>,
      <<<<"d", "e", "f", "a", "u", "l", "t">>, "DefaultFormatter">>,
      <<<<"u", "p", "p", "e", "r", "-", "c", "a", "s", "e">>, "UppercaseFormatter">>,
      <<<<"u", "c">>, "UppercaseFormatter">>,
      <<<<"e", "s", "c", "a", "p", "e", "-", "n", "e", "w", "l", "i", "n", "e", "s">>,
        "EscapeNewlineFormatter">>,
      <<<<"e", "s", "c", "a", "p", "e", "-", "s", "t", "r", "i", "n", "g">>,
        "EscapeStringFormatter">>,
      <<<<"w", "r", "a", "p", "-", "s", "t", "r", "i", "n", "g">>, "WrapStringFormatter">>,
      <<<<"c", "b", "o", "o", "l">>, "CBooleanFormatter">>,
      <<<<"h", "e", "x">>, "HexFormatter">> }

BlockClasses == {"IndentFormatter", "ListSeparatorFormatter"}
\* classes whose constructor (or Create) takes an argument
ArgClasses == {"IndentFormatter", "ListSeparatorFormatter", "WidthFormatter",
               "PrefixFormatter", "SuffixFormatter", "DefaultFormatter"}
\* classes whose Create calls int(value)
IntClasses == {"IndentFormatter", "WidthFormatter"}

TxtNEWLINE == <<"N", "E", "W", "L", "I", "N", "E">>
TxtSPACE == <<"S", "P", "A", "C", "E">>

IsBlockFormatter(f) == f.cls \in BlockClasses
IsValueFormatter(f) == f.cls \notin BlockClasses

\* _GetFormatter(name, value, position); hasv is "value is not None"
GetFormatter(name, hasv, value, position) ==
    CHOOSE result \in
      { IF ~\E a \in FormatterAliases : a[1] = n
        THEN [ok |-> FALSE, exc |-> TemplateExc("InvalidFormatter", position)]
        ELSE LET cls == (CHOOSE a \in FormatterAliases : a[1] = n)[2]
                 given == hasv /\ v # <<>>
             IN IF given # (cls \in ArgClasses)
                THEN [ok |-> FALSE, exc |-> PyExc("TypeError")]
                ELSE IF cls \in IntClasses
                THEN IF ~IntOk(v)
                     THEN [ok |-> FALSE, exc |-> PyExc("ValueError")]
                     ELSE [ok |-> TRUE, f |-> [cls |-> cls, n |-> IntOf(v)]]
                ELSE IF cls = "ListSeparatorFormatter"
                THEN [ok |-> TRUE,
                      f |-> [cls |-> cls,
                             s |-> ReplaceWord(ReplaceWord(v, TxtNEWLINE, <<"\n">>),
                                               TxtSPACE, <<" ">>)]]
                ELSE IF cls \in ArgClasses
                THEN [ok |-> TRUE, f |-> [cls |-> cls, s |-> v]]
                ELSE [ok |-> TRUE, f |-> [cls |-> cls]] :
          n \in {name}, v \in {value} } : TRUE

\* WidthFormatter.Format: str.format("{0:<w>}", s), "{0:><w>}" for a negative width
WidthFormat(width, s) ==
    IF width >= 0 THEN s \o Spaces(width - Len(s))
    ELSE Spaces((-width) - Len(s)) \o s

\* Formatter.Format(value) of every formatter class
Format(f, v) ==
    CASE f.cls = "IndentFormatter" ->
           IF v.t = "str"
           THEN [ok |-> TRUE, v |-> StrV(Replace(v.s, "\n", <<"\n">> \o Tabs(f.n)))]
           ELSE IF IsStr(v) THEN [ok |-> TRUE, v |-> OpaqueV]
           ELSE [ok |-> FALSE, exc |-> PyExc("AttributeError")]
      [] f.cls = "ListSeparatorFormatter" -> [ok |-> TRUE, v |-> v]
      [] f.cls = "WidthFormatter" ->
           IF StrOk(v) THEN [ok |-> TRUE, v |-> StrV(WidthFormat(f.n, PyStr(v)))]
           ELSE [ok |-> TRUE, v |-> OpaqueV]
      [] f.cls = "PrefixFormatter" ->
           IF StrOk(v) THEN [ok |-> TRUE, v |-> StrV(f.s \o PyStr(v))]
           ELSE [ok |-> TRUE, v |-> OpaqueV]
      [] f.cls = "SuffixFormatter" ->
           IF StrOk(v) THEN [ok |-> TRUE, v |-> StrV(PyStr(v) \o f.s)]
           ELSE [ok |-> TRUE, v |-> OpaqueV]
      [] f.cls = "DefaultFormatter" ->
           [ok |-> TRUE, v |-> IF IsNone(v) THEN StrV(f.s) ELSE v]
      [] f.cls = "UppercaseFormatter" ->
           IF StrOk(v)
           THEN CHOOSE r \in
                  { [ok |-> TRUE,
                     v |-> IF UpperOk(text) THEN StrV(UpperStr(text)) ELSE OpaqueV] :
                       text \in {PyStr(v)} } : TRUE
           ELSE [ok |-> TRUE, v |-> OpaqueV]
      [] f.cls = "EscapeNewlineFormatter" ->
           IF StrOk(v) THEN [ok |-> TRUE, v |-> StrV(Replace(PyStr(v), "\n", <<"\\", "n">>))]
           ELSE [ok |-> TRUE, v |-> OpaqueV]
      [] f.cls = "EscapeStringFormatter" ->
           IF StrOk(v)
           THEN [ok |-> TRUE,
                 v |-> StrV(Replace(Replace(Replace(PyStr(v), "\n", <<"\\", "n">>),
                                            "\t", <<"\\", "t">>),
                                    "\"", <<"\\", "\"">>))]
           ELSE [ok |-> TRUE, v |-> OpaqueV]
      [] f.cls = "WrapStringFormatter" ->
           [ok |-> TRUE,
            v |-> IF v.t = "str" THEN StrV(<<"\"">> \o v.s \o <<"\"">>)
                  ELSE IF IsStr(v) THEN OpaqueV
                  ELSE v]
      [] f.cls = "CBooleanFormatter" ->
           [ok |-> TRUE,
            v |-> IF v.t = "bool"
                  THEN StrV(IF v.b THEN <<"t", "r", "u", "e">>
                            ELSE <<"f", "a", "l", "s", "e">>)
                  ELSE v]
      [] f.cls = "HexFormatter" ->
           IF v.t \in {"int", "bool"}
           THEN LET i == IF v.t = "bool" THEN (IF v.b THEN 1 ELSE 0) ELSE v.i
                    result == PyHex(i)
                IN [ok |-> TRUE,
                    v |-> StrV(<<"0", "x">> \o UpperStr(SubSeq(result, 3, Len(result))))]
           ELSE IF v.t = "num" THEN [ok |-> TRUE, v |-> OpaqueV]
           ELSE [ok |-> FALSE, exc |-> PyExc("TypeError")]

\* OnBlockBegin(isFirst): the prefix, <<>> when the hook returns None.  The
\* hook of the base class asserts a block formatter (line 190): on a value
\* formatter it raises AssertionError, the result here.  The formatters of a
\* block token are block formatters (Token.__init__, lines 450-459), so the
\* loops of __ExpandBlock get texts only.
OnBlockBegin(f, isFirst) ==
    IF f.cls = "IndentFormatter" THEN Tabs(f.n)
    ELSE IF IsBlockFormatter(f) THEN <<>>
    ELSE PyExc("AssertionError")

\* OnBlockEnd without the test of isLast: the separator after every instance
OnBlockEndAlways(f, isLast) ==
    IF f.cls = "ListSeparatorFormatter" THEN f.s
    ELSE IF IsBlockFormatter(f) THEN <<>>
    ELSE PyExc("AssertionError")

\* OnBlockEnd(isLast): the suffix, <<>> when the hook returns None; the
\* AssertionError of line 199 on a value formatter
OnBlockEnd(f, isLast) ==
    IF f.cls = "ListSeparatorFormatter" THEN (IF isLast THEN <<>> ELSE f.s)
    ELSE IF IsBlockFormatter(f) THEN <<>>
    ELSE PyExc("AssertionError")

(***************************************************************************)
(* Token                                                                   *)
(***************************************************************************)
\* Token.__validPrefixes; a token without prefix has prefix None
ValidPrefixes == {"#", "/", "_", ">", "!"}
NoPrefix == ""

RECURSIVE TokenFlags(_, _, _, _)
\* the loop over flags of Token.__init__: the formatters, or the first error
TokenFlags(flags, prefix, name, position) ==
    IF flags = <<>> THEN [ok |-> TRUE, fmts |-> <<>>]
    ELSE CHOOSE result \in
      { LET hasv == Find(flag, "=") # -1
            parts == Split(flag, "=")
        IN IF hasv /\ Len(parts) # 2
           THEN [ok |-> FALSE, exc |-> PyExc("ValueError")]
           ELSE CHOOSE r \in
             { IF ~g.ok THEN g
               ELSE IF IsBlockFormatter(g.f) /\ prefix # "#"
               THEN [ok |-> FALSE, exc |-> TemplateExc("InvalidFormatter", position)]
               ELSE IF IsValueFormatter(g.f)
                       /\ ~(prefix = NoPrefix /\ name # <<".">>)
               THEN [ok |-> FALSE, exc |-> TemplateExc("InvalidFormatter", position)]
               ELSE CHOOSE rr \in
                      { IF ~rest.ok THEN rest
                        ELSE [ok |-> TRUE, fmts |-> <<g.f>> \o rest.fmts] :
                          rest \in {TokenFlags(Tail(flags), prefix, name, position)} } : TRUE :
                 g \in {GetFormatter(IF hasv THEN parts[1] ELSE flag, hasv,
                                     IF hasv THEN parts[2] ELSE <<>>, position)} } : TRUE :
          flag \in {Head(flags)} } : TRUE

\* Token.__init__(name, start, end, position): the token, or the error raised
Token(text, start, end, position) ==
    CHOOSE result \in
      { CHOOSE r \in
          { LET name == IF separator > 0 THEN SubSeq(rest, 1, separator) ELSE rest
                flags == IF separator > 0
                         THEN Split(SubSeq(rest, separator + 2, Len(rest)), ":")
                         ELSE <<>>
            IN CHOOSE rr \in
                 { IF ~fl.ok THEN fl
                   ELSE [ok |-> TRUE,
                         tok |-> [prefix |-> prefix, name |-> n, start |-> start,
                                  end |-> end, position |-> position,
                                  formatters |-> fl.fmts]] :
                     fl \in {TokenFlags(flags, prefix, name, position)},
                     n \in {name} } : TRUE :
              separator \in {Find(rest, ":")} } : TRUE :
          prefix \in {IF text # <<>> /\ text[1] \in ValidPrefixes
                       THEN text[1] ELSE NoPrefix},
          rest \in {IF text # <<>> /\ text[1] \in ValidPrefixes
                     THEN Tail(text) ELSE text} } : TRUE

IsBlockStart(tok) == tok.prefix = "#"
IsNegatedBlockStart(tok) == tok.prefix = "!"
IsBlockClose(tok) == tok.prefix = "/"
IsNamedCharacter(tok) == tok.prefix = "_"
IsInclude(tok) == tok.prefix = ">"
IsValue(tok) == tok.prefix = NoPrefix /\ tok.name # <<".">>
\* IsSelfReference reads name[0]: an IndexError on an empty name
SelfReferenceOk(tok) == tok.name # <<>>
IsSelfReference(tok) == tok.name[1] = "."

\* Token.__namedCharacterTokens
NamedCharacters ==
    { <<<<"L", "E", "F", "T", "_", "B", "R", "A", "C", "E">>, "{">>,
      <<<<"R", "I", "G", "H", "T", "_", "B", "R", "A", "C", "E">>, "}">>,
      <<TxtNEWLINE, "\n">>,
      <<TxtSPACE, " ">> }

\* EvaluateNamedCharacterToken(position)
EvaluateNamedCharacterToken(tok, position) ==
    IF \E n \in NamedCharacters : n[1] = tok.name
    THEN [ok |-> TRUE, c |-> (CHOOSE n \in NamedCharacters : n[1] = tok.name)[2]]
    ELSE [ok |-> FALSE, exc |-> TemplateExc("InvalidNamedCharacterToken", position)]

(***************************************************************************)
(* Template.__ReadToken and Template.__FindBlockEnd                        *)
(***************************************************************************)
RECURSIVE ReadTokenLoop(_, _, _, _)
\* the while loop of __ReadToken; the character read is bound through a
\* singleton set, so that it is read once per iteration
ReadTokenLoop(st, text, start, startPosition) ==
    CHOOSE result \in
      { IF g.c = EOS
        THEN [ok |-> FALSE, exc |-> TemplateExc("InvalidToken", GetPosition(g.st)),
              st |-> g.st]
        ELSE IF g.c # "}"
        THEN ReadTokenLoop(g.st, name \o <<g.c>>, first, position)
        ELSE IF Peek(g.st) = "}"
        THEN CHOOSE r \in
               { IF t.ok THEN [ok |-> TRUE, tok |-> t.tok, st |-> st2]
                 ELSE [ok |-> FALSE, exc |-> t.exc, st |-> st2] :
                   t \in {Token(name, first, Get(g.st).st.offset, position)},
                   st2 \in {Get(g.st).st} } : TRUE
        ELSE [ok |-> FALSE, exc |-> TemplateExc("InvalidToken", GetPosition(g.st)),
              st |-> g.st] :
          g \in {Get(st)}, name \in {text}, first \in {start},
          position \in {startPosition} } : TRUE

\* __ReadToken(inputStream): the token and the stream after it, or the error
\* and the stream where it was raised
ReadToken(st) ==
    IF ~SkipOk(st, 2)
    THEN [ok |-> FALSE, exc |-> PyExc("AssertionError"), st |-> st]
    ELSE ReadTokenLoop(Skip(st, 2), <<>>, st.offset, GetPosition(st))

RECURSIVE FindBlockEndLoop(_, _)
\* a matcher that pops the open-block stack without comparing the names
FindBlockEndTokenAnyName(r, nestedStack) ==
    IF ~r.ok THEN r
    ELSE LET pushed == IF IsBlockStart(r.tok) \/ IsNegatedBlockStart(r.tok)
                       THEN Append(nestedStack, r.tok.name)
                       ELSE nestedStack
         IN IF IsBlockClose(r.tok)
            THEN IF Len(pushed) = 1 THEN r
                 ELSE FindBlockEndLoop(r.st, SubSeq(pushed, 1, Len(pushed) - 1))
            ELSE FindBlockEndLoop(r.st, pushed)

\* a matcher that returns the first block-close that names the block it
\* was called for, whatever is open before it
FindBlockEndTokenFirstNamed(r, nestedStack) ==
    IF ~r.ok THEN r
    ELSE IF IsBlockClose(r.tok) /\ r.tok.name = nestedStack[1] THEN r
    ELSE FindBlockEndLoop(r.st, nestedStack)

\* what __FindBlockEnd does with the token r it has read
FindBlockEndToken(r, nestedStack) ==
    IF ~r.ok THEN r
    ELSE LET pushed == IF IsBlockStart(r.tok) \/ IsNegatedBlockStart(r.tok)
                       THEN Append(nestedStack, r.tok.name)
                       ELSE nestedStack
         IN IF IsBlockClose(r.tok)
            THEN LET lastBlock == pushed[Len(pushed)]
                     popped == SubSeq(pushed, 1, Len(pushed) - 1)
                 IN IF r.tok.name # lastBlock
                    THEN [ok |-> FALSE,
                          exc |-> TemplateExc("InvalidBlock", GetPosition(r.st)),
                          st |-> r.st]
                    ELSE IF popped = <<>> THEN r
                    ELSE FindBlockEndLoop(r.st, popped)
            ELSE FindBlockEndLoop(r.st, pushed)

\* the while loop of __FindBlockEnd; the character and the token read are
\* bound through singleton sets, so that each is read once per iteration
FindBlockEndLoop(st, nestedStack) ==
    IF IsAtEnd(st)
    THEN [ok |-> FALSE, exc |-> TemplateExc("InvalidBlock", GetPosition(st)), st |-> st]
    ELSE CHOOSE result \in
           { IF g.c = "{" /\ Peek(g.st) = "{"
             THEN CHOOSE found \in
                    { FindBlockEndToken(r, nestedStack) : r \in {ReadToken(Unget(g.st))} } :
                    TRUE
             ELSE FindBlockEndLoop(g.st, nestedStack) : g \in {Get(st)} } : TRUE

\* __FindBlockEnd(inputStream, blockname)
FindBlockEnd(st, blockname) == FindBlockEndLoop(st, <<blockname>>)

(***************************************************************************)
(* Template.__ExpandVariable                                               *)
(***************************************************************************)
\* The interpreter the program runs on.  The docstrings of its types are
\* texts of its build, and a dotted path reads them ({{a.keys.__doc__.[57]}}
\* indexes one: lines 574-575).  A build is what its docstrings have more
\* than the shortest of the builds:
\*   subtype: in the docstrings of the descriptors __dict__ and __weakref__
\*     of a class made by a class statement ("dictionary for instance
\*     variables" and "list of weak references to the object", followed by
\*     " (if defined)" in CPython 3.11 and not in later releases);
\*   split: in the docstrings of str.split and str.rsplit;
\*   staticmethod: in the docstring of the type staticmethod.
\* The builds are CPython 3.11.6, CPython 3.11.2, and a build that has the
\* docstrings of 3.11.6 without " (if defined)".
Builds ==
    {[subtype |-> 13, split |-> 0, staticmethod |-> 1],
     [subtype |-> 13, split |-> 4, staticmethod |-> 0],
     [subtype |-> 0, split |-> 0, staticmethod |-> 1]}

\* CPython: the types a dotted path reaches from the values of a
\* context, each with its name, its module, its MRO, the length of its
\* docstring and of its signature (-1: None, -2: the descriptor of
\* __doc__), and its namespace: the type k of what it holds under the
\* name n, with the lengths of the docstring and of the signature of that.
\* A docstring whose length differs between the builds has its shortest
\* length here.
\* Item is the class of the objects of a context, a class such as
\* "class Item: pass" of the main module.
Types ==
    ("dict" :>
       [name |-> <<"d", "i", "c", "t">>,
        module |-> <<"b", "u", "i", "l", "t", "i", "n", "s">>,
        mro |-> <<"dict", "object">>, doc |-> 370, sig |-> -1,
        ns |-> <<
          [n |-> <<"_", "_", "n", "e", "w", "_", "_">>, k |-> "builtin_function_or_method", doc |-> 71, sig |-> 24],
          [n |-> <<"_", "_", "r", "e", "p", "r", "_", "_">>, k |-> "wrapper_descriptor", doc |-> 18, sig |-> 10],
          [n |-> <<"_", "_", "h", "a", "s", "h", "_", "_">>, k |-> "NoneType", doc |-> -1, sig |-> -1],
          [n |-> <<"_", "_", "g", "e", "t", "a", "t", "t", "r", "i", "b", "u", "t", "e", "_", "_">>, k |-> "wrapper_descriptor", doc |-> 27, sig |-> 16],
          [n |-> <<"_", "_", "l", "t", "_", "_">>, k |-> "wrapper_descriptor", doc |-> 18, sig |-> 17],
          [n |-> <<"_", "_", "l", "e", "_", "_">>, k |-> "wrapper_descriptor", doc |-> 19, sig |-> 17],
          [n |-> <<"_", "_", "e", "q", "_", "_">>, k |-> "wrapper_descriptor", doc |-> 19, sig |-> 17],
          [n |-> <<"_", "_", "n", "e", "_", "_">>, k |-> "wrapper_descriptor", doc |-> 19, sig |-> 17],
          [n |-> <<"_", "_", "g", "t", "_", "_">>, k |-> "wrapper_descriptor", doc |-> 18, sig |-> 17],
          [n |-> <<"_", "_", "g", "e", "_", "_">>, k |-> "wrapper_descriptor", doc |-> 19, sig |-> 17],
          [n |-> <<"_", "_", "i", "t", "e", "r", "_", "_">>, k |-> "wrapper_descriptor", doc |-> 21, sig |-> 10],
          [n |-> <<"_", "_", "i", "n", "i", "t", "_", "_">>, k |-> "wrapper_descriptor", doc |-> 62, sig |-> 27],
          [n |-> <<"_", "_", "o", "r", "_", "_">>, k |-> "wrapper_descriptor", doc |-> 18, sig |-> 17],
          [n |-> <<"_", "_", "r", "o", "r", "_", "_">>, k |-> "wrapper_descriptor", doc |-> 18, sig |-> 17],
          [n |-> <<"_", "_", "i", "o", "r", "_", "_">>, k |-> "wrapper_descriptor", doc |-> 19, sig |-> 17],
          [n |-> <<"_", "_", "l", "e", "n", "_", "_">>, k |-> "wrapper_descriptor", doc |-> 17, sig |-> 10],
          [n |-> <<"_", "_", "g", "e", "t", "i", "t", "e", "m", "_", "_">>, k |-> "method_descriptor", doc |-> 26, sig |-> -1],
          [n |-> <<"_", "_", "s", "e", "t", "i", "t", "e", "m", "_", "_">>, k |-> "wrapper_descriptor", doc |-> 23, sig |-> 22],
          [n |-> <<"_", "_", "d", "e", "l", "i", "t", "e", "m", "_", "_">>, k |-> "wrapper_descriptor", doc |-> 17, sig |-> 15],
          [n |-> <<"_", "_", "c", "o", "n", "t", "a", "i", "n", "s", "_", "_">>, k |-> "method_descriptor", doc |-> 57, sig |-> 15],
          [n |-> <<"_", "_", "s", "i", "z", "e", "o", "f", "_", "_">>, k |-> "method_descriptor", doc |-> 47, sig |-> -1],
          [n |-> <<"g", "e", "t">>, k |-> "method_descriptor", doc |-> 67, sig |-> 29],
          [n |-> <<"s", "e", "t", "d", "e", "f", "a", "u", "l", "t">>, k |-> "method_descriptor", doc |-> 136, sig |-> 29],
          [n |-> <<"p", "o", "p">>, k |-> "method_descriptor", doc |-> 159, sig |-> 42],
          [n |-> <<"p", "o", "p", "i", "t", "e", "m">>, k |-> "method_descriptor", doc |-> 145, sig |-> 10],
          [n |-> <<"k", "e", "y", "s">>, k |-> "method_descriptor", doc |-> 58, sig |-> -1],
          [n |-> <<"i", "t", "e", "m", "s">>, k |-> "method_descriptor", doc |-> 60, sig |-> -1],
          [n |-> <<"v", "a", "l", "u", "e", "s">>, k |-> "method_descriptor", doc |-> 54, sig |-> -1],
          [n |-> <<"u", "p", "d", "a", "t", "e">>, k |-> "method_descriptor", doc |-> 285, sig |-> -1],
          [n |-> <<"f", "r", "o", "m", "k", "e", "y", "s">>, k |-> "classmethod_descriptor", doc |-> 72, sig |-> 32],
          [n |-> <<"c", "l", "e", "a", "r">>, k |-> "method_descriptor", doc |-> 44, sig |-> -1],
          [n |-> <<"c", "o", "p", "y">>, k |-> "method_descriptor", doc |-> 31, sig |-> -1],
          [n |-> <<"_", "_", "r", "e", "v", "e", "r", "s", "e", "d", "_", "_">>, k |-> "method_descriptor", doc |-> 45, sig |-> 10],
          [n |-> <<"_", "_", "c", "l", "a", "s", "s", "_", "g", "e", "t", "i", "t", "e", "m", "_", "_">>, k |-> "classmethod_descriptor", doc |-> 11, sig |-> -1],
          [n |-> <<"_", "_", "d", "o", "c", "_", "_">>, k |-> "str", doc |-> 370, sig |-> -1] >>]) @@
    ("str" :>
       [name |-> <<"s", "t", "r">>,
        module |-> <<"b", "u", "i", "l", "t", "i", "n", "s">>,
        mro |-> <<"str", "object">>, doc |-> 421, sig |-> -1,
        ns |-> <<
          [n |-> <<"_", "_", "n", "e", "w", "_", "_">>, k |-> "builtin_function_or_method", doc |-> 71, sig |-> 24],
          [n |-> <<"_", "_", "r", "e", "p", "r", "_", "_">>, k |-> "wrapper_descriptor", doc |-> 18, sig |-> 10],
          [n |-> <<"_", "_", "h", "a", "s", "h", "_", "_">>, k |-> "wrapper_descriptor", doc |-> 18, sig |-> 10],
          [n |-> <<"_", "_", "s", "t", "r", "_", "_">>, k |-> "wrapper_descriptor", doc |-> 17, sig |-> 10],
          [n |-> <<"_", "_", "g", "e", "t", "a", "t", "t", "r", "i", "b", "u", "t", "e", "_", "_">>, k |-> "wrapper_descriptor", doc |-> 27, sig |-> 16],
          [n |-> <<"_", "_", "l", "t", "_", "_">>, k |-> "wrapper_descriptor", doc |-> 18, sig |-> 17],
          [n |-> <<"_", "_", "l", "e", "_", "_">>, k |-> "wrapper_descriptor", doc |-> 19, sig |-> 17],
          [n |-> <<"_", "_", "e", "q", "_", "_">>, k |-> "wrapper_descriptor", doc |-> 19, sig |-> 17],
          [n |-> <<"_", "_", "n", "e", "_", "_">>, k |-> "wrapper_descriptor", doc |-> 19, sig |-> 17],
          [n |-> <<"_", "_", "g", "t", "_", "_">>, k |-> "wrapper_descriptor", doc |-> 18, sig |-> 17],
          [n |-> <<"_", "_", "g", "e", "_", "_">>, k |-> "wrapper_descriptor", doc |-> 19, sig |-> 17],
          [n |-> <<"_", "_", "i", "t", "e", "r", "_", "_">>, k |-> "wrapper_descriptor", doc |-> 21, sig |-> 10],
          [n |-> <<"_", "_", "m", "o", "d", "_", "_">>, k |-> "wrapper_descriptor", doc |-> 18, sig |-> 17],
          [n |-> <<"_", "_", "r", "m", "o", "d", "_", "_">>, k |-> "wrapper_descriptor", doc |-> 18, sig |-> 17],
          [n |-> <<"_", "_", "l", "e", "n", "_", "_">>, k |-> "wrapper_descriptor", doc |-> 17, sig |-> 10],
          [n |-> <<"_", "_", "g", "e", "t", "i", "t", "e", "m", "_", "_">>, k |-> "wrapper_descriptor", doc |-> 17, sig |-> 15],
          [n |-> <<"_", "_", "a", "d", "d", "_", "_">>, k |-> "wrapper_descriptor", doc |-> 18, sig |-> 17],
          [n |-> <<"_", "_", "m", "u", "l", "_", "_">>, k |-> "wrapper_descriptor", doc |-> 18, sig |-> 17],
          [n |-> <<"_", "_", "r", "m", "u", "l", "_", "_">>, k |-> "wrapper_descriptor", doc |-> 18, sig |-> 17],
          [n |-> <<"_", "_", "c", "o", "n", "t", "a", "i", "n", "s", "_", "_">>, k |-> "wrapper_descriptor", doc |-> 19, sig |-> 15],
          [n |-> <<"e", "n", "c", "o", "d", "e">>, k |-> "method_descriptor", doc |-> 454, sig |-> 45],
          [n |-> <<"r", "e", "p", "l", "a", "c", "e">>, k |-> "method_descriptor", doc |-> 270, sig |-> 30],
          [n |-> <<"s", "p", "l", "i", "t">>, k |-> "method_descriptor", doc |-> 590, sig |-> 33],
          [n |-> <<"r", "s", "p", "l", "i", "t">>, k |-> "method_descriptor", doc |-> 481, sig |-> 33],
          [n |-> <<"j", "o", "i", "n">>, k |-> "method_descriptor", doc |-> 204, sig |-> 20],
          [n |-> <<"c", "a", "p", "i", "t", "a", "l", "i", "z", "e">>, k |-> "method_descriptor", doc |-> 129, sig |-> 10],
          [n |-> <<"c", "a", "s", "e", "f", "o", "l", "d">>, k |-> "method_descriptor", doc |-> 65, sig |-> 10],
          [n |-> <<"t", "i", "t", "l", "e">>, k |-> "method_descriptor", doc |-> 172, sig |-> 10],
          [n |-> <<"c", "e", "n", "t", "e", "r">>, k |-> "method_descriptor", doc |-> 115, sig |-> 31],
          [n |-> <<"c", "o", "u", "n", "t">>, k |-> "method_descriptor", doc |-> 198, sig |-> -1],
          [n |-> <<"e", "x", "p", "a", "n", "d", "t", "a", "b", "s">>, k |-> "method_descriptor", doc |-> 130, sig |-> 21],
          [n |-> <<"f", "i", "n", "d">>, k |-> "method_descriptor", doc |-> 237, sig |-> -1],
          [n |-> <<"p", "a", "r", "t", "i", "t", "i", "o", "n">>, k |-> "method_descriptor", doc |-> 352, sig |-> 15],
          [n |-> <<"i", "n", "d", "e", "x">>, k |-> "method_descriptor", doc |-> 267, sig |-> -1],
          [n |-> <<"l", "j", "u", "s", "t">>, k |-> "method_descriptor", doc |-> 121, sig |-> 31],
          [n |-> <<"l", "o", "w", "e", "r">>, k |-> "method_descriptor", doc |-> 51, sig |-> 10],
          [n |-> <<"l", "s", "t", "r", "i", "p">>, k |-> "method_descriptor", doc |-> 129, sig |-> 22],
          [n |-> <<"r", "f", "i", "n", "d">>, k |-> "method_descriptor", doc |-> 239, sig |-> -1],
          [n |-> <<"r", "i", "n", "d", "e", "x">>, k |-> "method_descriptor", doc |-> 269, sig |-> -1],
          [n |-> <<"r", "j", "u", "s", "t">>, k |-> "method_descriptor", doc |-> 122, sig |-> 31],
          [n |-> <<"r", "s", "t", "r", "i", "p">>, k |-> "method_descriptor", doc |-> 130, sig |-> 22],
          [n |-> <<"r", "p", "a", "r", "t", "i", "t", "i", "o", "n">>, k |-> "method_descriptor", doc |-> 372, sig |-> 15],
          [n |-> <<"s", "p", "l", "i", "t", "l", "i", "n", "e", "s">>, k |-> "method_descriptor", doc |-> 157, sig |-> 26],
          [n |-> <<"s", "t", "r", "i", "p">>, k |-> "method_descriptor", doc |-> 142, sig |-> 22],
          [n |-> <<"s", "w", "a", "p", "c", "a", "s", "e">>, k |-> "method_descriptor", doc |-> 80, sig |-> 10],
          [n |-> <<"t", "r", "a", "n", "s", "l", "a", "t", "e">>, k |-> "method_descriptor", doc |-> 396, sig |-> 17],
          [n |-> <<"u", "p", "p", "e", "r">>, k |-> "method_descriptor", doc |-> 51, sig |-> 10],
          [n |-> <<"s", "t", "a", "r", "t", "s", "w", "i", "t", "h">>, k |-> "method_descriptor", doc |-> 269, sig |-> -1],
          [n |-> <<"e", "n", "d", "s", "w", "i", "t", "h">>, k |-> "method_descriptor", doc |-> 265, sig |-> -1],
          [n |-> <<"r", "e", "m", "o", "v", "e", "p", "r", "e", "f", "i", "x">>, k |-> "method_descriptor", doc |-> 185, sig |-> 18],
          [n |-> <<"r", "e", "m", "o", "v", "e", "s", "u", "f", "f", "i", "x">>, k |-> "method_descriptor", doc |-> 213, sig |-> 18],
          [n |-> <<"i", "s", "a", "s", "c", "i", "i">>, k |-> "method_descriptor", doc |-> 161, sig |-> 10],
          [n |-> <<"i", "s", "l", "o", "w", "e", "r">>, k |-> "method_descriptor", doc |-> 197, sig |-> 10],
          [n |-> <<"i", "s", "u", "p", "p", "e", "r">>, k |-> "method_descriptor", doc |-> 198, sig |-> 10],
          [n |-> <<"i", "s", "t", "i", "t", "l", "e">>, k |-> "method_descriptor", doc |-> 203, sig |-> 10],
          [n |-> <<"i", "s", "s", "p", "a", "c", "e">>, k |-> "method_descriptor", doc |-> 188, sig |-> 10],
          [n |-> <<"i", "s", "d", "e", "c", "i", "m", "a", "l">>, k |-> "method_descriptor", doc |-> 188, sig |-> 10],
          [n |-> <<"i", "s", "d", "i", "g", "i", "t">>, k |-> "method_descriptor", doc |-> 183, sig |-> 10],
          [n |-> <<"i", "s", "n", "u", "m", "e", "r", "i", "c">>, k |-> "method_descriptor", doc |-> 179, sig |-> 10],
          [n |-> <<"i", "s", "a", "l", "p", "h", "a">>, k |-> "method_descriptor", doc |-> 189, sig |-> 10],
          [n |-> <<"i", "s", "a", "l", "n", "u", "m">>, k |-> "method_descriptor", doc |-> 198, sig |-> 10],
          [n |-> <<"i", "s", "i", "d", "e", "n", "t", "i", "f", "i", "e", "r">>, k |-> "method_descriptor", doc |-> 176, sig |-> 10],
          [n |-> <<"i", "s", "p", "r", "i", "n", "t", "a", "b", "l", "e">>, k |-> "method_descriptor", doc |-> 158, sig |-> 10],
          [n |-> <<"z", "f", "i", "l", "l">>, k |-> "method_descriptor", doc |-> 112, sig |-> 17],
          [n |-> <<"f", "o", "r", "m", "a", "t">>, k |-> "method_descriptor", doc |-> 166, sig |-> -1],
          [n |-> <<"f", "o", "r", "m", "a", "t", "_", "m", "a", "p">>, k |-> "method_descriptor", doc |-> 154, sig |-> -1],
          [n |-> <<"_", "_", "f", "o", "r", "m", "a", "t", "_", "_">>, k |-> "method_descriptor", doc |-> 69, sig |-> 23],
          [n |-> <<"m", "a", "k", "e", "t", "r", "a", "n", "s">>, k |-> "staticmethod", doc |-> 533, sig |-> 48],
          [n |-> <<"_", "_", "s", "i", "z", "e", "o", "f", "_", "_">>, k |-> "method_descriptor", doc |-> 50, sig |-> 10],
          [n |-> <<"_", "_", "g", "e", "t", "n", "e", "w", "a", "r", "g", "s", "_", "_">>, k |-> "method_descriptor", doc |-> -1, sig |-> -1],
          [n |-> <<"_", "_", "d", "o", "c", "_", "_">>, k |-> "str", doc |-> 421, sig |-> -1] >>]) @@
    ("list" :>
       [name |-> <<"l", "i", "s", "t">>,
        module |-> <<"b", "u", "i", "l", "t", "i", "n", "s">>,
        mro |-> <<"list", "object">>, doc |-> 141, sig |-> 16,
        ns |-> <<
          [n |-> <<"_", "_", "n", "e", "w", "_", "_">>, k |-> "builtin_function_or_method", doc |-> 71, sig |-> 24],
          [n |-> <<"_", "_", "r", "e", "p", "r", "_", "_">>, k |-> "wrapper_descriptor", doc |-> 18, sig |-> 10],
          [n |-> <<"_", "_", "h", "a", "s", "h", "_", "_">>, k |-> "NoneType", doc |-> -1, sig |-> -1],
          [n |-> <<"_", "_", "g", "e", "t", "a", "t", "t", "r", "i", "b", "u", "t", "e", "_", "_">>, k |-> "wrapper_descriptor", doc |-> 27, sig |-> 16],
          [n |-> <<"_", "_", "l", "t", "_", "_">>, k |-> "wrapper_descriptor", doc |-> 18, sig |-> 17],
          [n |-> <<"_", "_", "l", "e", "_", "_">>, k |-> "wrapper_descriptor", doc |-> 19, sig |-> 17],
          [n |-> <<"_", "_", "e", "q", "_", "_">>, k |-> "wrapper_descriptor", doc |-> 19, sig |-> 17],
          [n |-> <<"_", "_", "n", "e", "_", "_">>, k |-> "wrapper_descriptor", doc |-> 19, sig |-> 17],
          [n |-> <<"_", "_", "g", "t", "_", "_">>, k |-> "wrapper_descriptor", doc |-> 18, sig |-> 17],
          [n |-> <<"_", "_", "g", "e", "_", "_">>, k |-> "wrapper_descriptor", doc |-> 19, sig |-> 17],
          [n |-> <<"_", "_", "i", "t", "e", "r", "_", "_">>, k |-> "wrapper_descriptor", doc |-> 21, sig |-> 10],
          [n |-> <<"_", "_", "i", "n", "i", "t", "_", "_">>, k |-> "wrapper_descriptor", doc |-> 62, sig |-> 27],
          [n |-> <<"_", "_", "l", "e", "n", "_", "_">>, k |-> "wrapper_descriptor", doc |-> 17, sig |-> 10],
          [n |-> <<"_", "_", "g", "e", "t", "i", "t", "e", "m", "_", "_">>, k |-> "method_descriptor", doc |-> 26, sig |-> -1],
          [n |-> <<"_", "_", "s", "e", "t", "i", "t", "e", "m", "_", "_">>, k |-> "wrapper_descriptor", doc |-> 23, sig |-> 22],
          [n |-> <<"_", "_", "d", "e", "l", "i", "t", "e", "m", "_", "_">>, k |-> "wrapper_descriptor", doc |-> 17, sig |-> 15],
          [n |-> <<"_", "_", "a", "d", "d", "_", "_">>, k |-> "wrapper_descriptor", doc |-> 18, sig |-> 17],
          [n |-> <<"_", "_", "m", "u", "l", "_", "_">>, k |-> "wrapper_descriptor", doc |-> 18, sig |-> 17],
          [n |-> <<"_", "_", "r", "m", "u", "l", "_", "_">>, k |-> "wrapper_descriptor", doc |-> 18, sig |-> 17],
          [n |-> <<"_", "_", "c", "o", "n", "t", "a", "i", "n", "s", "_", "_">>, k |-> "wrapper_descriptor", doc |-> 19, sig |-> 15],
          [n |-> <<"_", "_", "i", "a", "d", "d", "_", "_">>, k |-> "wrapper_descriptor", doc |-> 22, sig |-> 17],
          [n |-> <<"_", "_", "i", "m", "u", "l", "_", "_">>, k |-> "wrapper_descriptor", doc |-> 22, sig |-> 17],
          [n |-> <<"_", "_", "r", "e", "v", "e", "r", "s", "e", "d", "_", "_">>, k |-> "method_descriptor", doc |-> 40, sig |-> 10],
          [n |-> <<"_", "_", "s", "i", "z", "e", "o", "f", "_", "_">>, k |-> "method_descriptor", doc |-> 48, sig |-> 10],
          [n |-> <<"c", "l", "e", "a", "r">>, k |-> "method_descriptor", doc |-> 27, sig |-> 10],
          [n |-> <<"c", "o", "p", "y">>, k |-> "method_descriptor", doc |-> 34, sig |-> 10],
          [n |-> <<"a", "p", "p", "e", "n", "d">>, k |-> "method_descriptor", doc |-> 37, sig |-> 18],
          [n |-> <<"i", "n", "s", "e", "r", "t">>, k |-> "method_descriptor", doc |-> 27, sig |-> 25],
          [n |-> <<"e", "x", "t", "e", "n", "d">>, k |-> "method_descriptor", doc |-> 52, sig |-> 20],
          [n |-> <<"p", "o", "p">>, k |-> "method_descriptor", doc |-> 109, sig |-> 20],
          [n |-> <<"r", "e", "m", "o", "v", "e">>, k |-> "method_descriptor", doc |-> 81, sig |-> 17],
          [n |-> <<"i", "n", "d", "e", "x">>, k |-> "method_descriptor", doc |-> 76, sig |-> 44],
          [n |-> <<"c", "o", "u", "n", "t">>, k |-> "method_descriptor", doc |-> 38, sig |-> 17],
          [n |-> <<"r", "e", "v", "e", "r", "s", "e">>, k |-> "method_descriptor", doc |-> 19, sig |-> 10],
          [n |-> <<"s", "o", "r", "t">>, k |-> "method_descriptor", doc |-> 366, sig |-> 38],
          [n |-> <<"_", "_", "c", "l", "a", "s", "s", "_", "g", "e", "t", "i", "t", "e", "m", "_", "_">>, k |-> "classmethod_descriptor", doc |-> 11, sig |-> -1],
          [n |-> <<"_", "_", "d", "o", "c", "_", "_">>, k |-> "str", doc |-> 141, sig |-> -1] >>]) @@
    ("int" :>
       [name |-> <<"i", "n", "t">>,
        module |-> <<"b", "u", "i", "l", "t", "i", "n", "s">>,
        mro |-> <<"int", "object">>, doc |-> 605, sig |-> -1,
        ns |-> <<
          [n |-> <<"_", "_", "n", "e", "w", "_", "_">>, k |-> "builtin_function_or_method", doc |-> 71, sig |-> 24],
          [n |-> <<"_", "_", "r", "e", "p", "r", "_", "_">>, k |-> "wrapper_descriptor", doc |-> 18, sig |-> 10],
          [n |-> <<"_", "_", "h", "a", "s", "h", "_", "_">>, k |-> "wrapper_descriptor", doc |-> 18, sig |-> 10],
          [n |-> <<"_", "_", "g", "e", "t", "a", "t", "t", "r", "i", "b", "u", "t", "e", "_", "_">>, k |-> "wrapper_descriptor", doc |-> 27, sig |-> 16],
          [n |-> <<"_", "_", "l", "t", "_", "_">>, k |-> "wrapper_descriptor", doc |-> 18, sig |-> 17],
          [n |-> <<"_", "_", "l", "e", "_", "_">>, k |-> "wrapper_descriptor", doc |-> 19, sig |-> 17],
          [n |-> <<"_", "_", "e", "q", "_", "_">>, k |-> "wrapper_descriptor", doc |-> 19, sig |-> 17],
          [n |-> <<"_", "_", "n", "e", "_", "_">>, k |-> "wrapper_descriptor", doc |-> 19, sig |-> 17],
          [n |-> <<"_", "_", "g", "t", "_", "_">>, k |-> "wrapper_descriptor", doc |-> 18, sig |-> 17],
          [n |-> <<"_", "_", "g", "e", "_", "_">>, k |-> "wrapper_descriptor", doc |-> 19, sig |-> 17],
          [n |-> <<"_", "_", "a", "d", "d", "_", "_">>, k |-> "wrapper_descriptor", doc |-> 18, sig |-> 17],
          [n |-> <<"_", "_", "r", "a", "d", "d", "_", "_">>, k |-> "wrapper_descriptor", doc |-> 18, sig |-> 17],
          [n |-> <<"_", "_", "s", "u", "b", "_", "_">>, k |-> "wrapper_descriptor", doc |-> 18, sig |-> 17],
          [n |-> <<"_", "_", "r", "s", "u", "b", "_", "_">>, k |-> "wrapper_descriptor", doc |-> 18, sig |-> 17],
          [n |-> <<"_", "_", "m", "u", "l", "_", "_">>, k |-> "wrapper_descriptor", doc |-> 18, sig |-> 17],
          [n |-> <<"_", "_", "r", "m", "u", "l", "_", "_">>, k |-> "wrapper_descriptor", doc |-> 18, sig |-> 17],
          [n |-> <<"_", "_", "m", "o", "d", "_", "_">>, k |-> "wrapper_descriptor", doc |-> 18, sig |-> 17],
          [n |-> <<"_", "_", "r", "m", "o", "d", "_", "_">>, k |-> "wrapper_descriptor", doc |-> 18, sig |-> 17],
          [n |-> <<"_", "_", "d", "i", "v", "m", "o", "d", "_", "_">>, k |-> "wrapper_descriptor", doc |-> 27, sig |-> 17],
          [n |-> <<"_", "_", "r", "d", "i", "v", "m", "o", "d", "_", "_">>, k |-> "wrapper_descriptor", doc |-> 27, sig |-> 17],
          [n |-> <<"_", "_", "p", "o", "w", "_", "_">>, k |-> "wrapper_descriptor", doc |-> 29, sig |-> 27],
          [n |-> <<"_", "_", "r", "p", "o", "w", "_", "_">>, k |-> "wrapper_descriptor", doc |-> 29, sig |-> 27],
          [n |-> <<"_", "_", "n", "e", "g", "_", "_">>, k |-> "wrapper_descriptor", doc |-> 5, sig |-> 10],
          [n |-> <<"_", "_", "p", "o", "s", "_", "_">>, k |-> "wrapper_descriptor", doc |-> 5, sig |-> 10],
          [n |-> <<"_", "_", "a", "b", "s", "_", "_">>, k |-> "wrapper_descriptor", doc |-> 9, sig |-> 10],
          [n |-> <<"_", "_", "b", "o", "o", "l", "_", "_">>, k |-> "wrapper_descriptor", doc |-> 23, sig |-> 10],
          [n |-> <<"_", "_", "i", "n", "v", "e", "r", "t", "_", "_">>, k |-> "wrapper_descriptor", doc |-> 5, sig |-> 10],
          [n |-> <<"_", "_", "l", "s", "h", "i", "f", "t", "_", "_">>, k |-> "wrapper_descriptor", doc |-> 19, sig |-> 17],
          [n |-> <<"_", "_", "r", "l", "s", "h", "i", "f", "t", "_", "_">>, k |-> "wrapper_descriptor", doc |-> 19, sig |-> 17],
          [n |-> <<"_", "_", "r", "s", "h", "i", "f", "t", "_", "_">>, k |-> "wrapper_descriptor", doc |-> 19, sig |-> 17],
          [n |-> <<"_", "_", "r", "r", "s", "h", "i", "f", "t", "_", "_">>, k |-> "wrapper_descriptor", doc |-> 19, sig |-> 17],
          [n |-> <<"_", "_", "a", "n", "d", "_", "_">>, k |-> "wrapper_descriptor", doc |-> 18, sig |-> 17],
          [n |-> <<"_", "_", "r", "a", "n", "d", "_", "_">>, k |-> "wrapper_descriptor", doc |-> 18, sig |-> 17],
          [n |-> <<"_", "_", "x", "o", "r", "_", "_">>, k |-> "wrapper_descriptor", doc |-> 18, sig |-> 17],
          [n |-> <<"_", "_", "r", "x", "o", "r", "_", "_">>, k |-> "wrapper_descriptor", doc |-> 18, sig |-> 17],
          [n |-> <<"_", "_", "o", "r", "_", "_">>, k |-> "wrapper_descriptor", doc |-> 18, sig |-> 17],
          [n |-> <<"_", "_", "r", "o", "r", "_", "_">>, k |-> "wrapper_descriptor", doc |-> 18, sig |-> 17],
          [n |-> <<"_", "_", "i", "n", "t", "_", "_">>, k |-> "wrapper_descriptor", doc |-> 9, sig |-> 10],
          [n |-> <<"_", "_", "f", "l", "o", "a", "t", "_", "_">>, k |-> "wrapper_descriptor", doc |-> 11, sig |-> 10],
          [n |-> <<"_", "_", "f", "l", "o", "o", "r", "d", "i", "v", "_", "_">>, k |-> "wrapper_descriptor", doc |-> 19, sig |-> 17],
          [n |-> <<"_", "_", "r", "f", "l", "o", "o", "r", "d", "i", "v", "_", "_">>, k |-> "wrapper_descriptor", doc |-> 19, sig |-> 17],
          [n |-> <<"_", "_", "t", "r", "u", "e", "d", "i", "v", "_", "_">>, k |-> "wrapper_descriptor", doc |-> 18, sig |-> 17],
          [n |-> <<"_", "_", "r", "t", "r", "u", "e", "d", "i", "v", "_", "_">>, k |-> "wrapper_descriptor", doc |-> 18, sig |-> 17],
          [n |-> <<"_", "_", "i", "n", "d", "e", "x", "_", "_">>, k |-> "wrapper_descriptor", doc |-> 89, sig |-> 10],
          [n |-> <<"c", "o", "n", "j", "u", "g", "a", "t", "e">>, k |-> "method_descriptor", doc |-> 47, sig |-> -1],
          [n |-> <<"b", "i", "t", "_", "l", "e", "n", "g", "t", "h">>, k |-> "method_descriptor", doc |-> 101, sig |-> 10],
          [n |-> <<"b", "i", "t", "_", "c", "o", "u", "n", "t">>, k |-> "method_descriptor", doc |-> 156, sig |-> 10],
          [n |-> <<"t", "o", "_", "b", "y", "t", "e", "s">>, k |-> "method_descriptor", doc |-> 769, sig |-> 54],
          [n |-> <<"f", "r", "o", "m", "_", "b", "y", "t", "e", "s">>, k |-> "classmethod_descriptor", doc |-> 764, sig |-> 51],
          [n |-> <<"a", "s", "_", "i", "n", "t", "e", "g", "e", "r", "_", "r", "a", "t", "i", "o">>, k |-> "method_descriptor", doc |-> 240, sig |-> 10],
          [n |-> <<"_", "_", "t", "r", "u", "n", "c", "_", "_">>, k |-> "method_descriptor", doc |-> 38, sig |-> -1],
          [n |-> <<"_", "_", "f", "l", "o", "o", "r", "_", "_">>, k |-> "method_descriptor", doc |-> 36, sig |-> -1],
          [n |-> <<"_", "_", "c", "e", "i", "l", "_", "_">>, k |-> "method_descriptor", doc |-> 38, sig |-> -1],
          [n |-> <<"_", "_", "r", "o", "u", "n", "d", "_", "_">>, k |-> "method_descriptor", doc |-> 96, sig |-> 37],
          [n |-> <<"_", "_", "g", "e", "t", "n", "e", "w", "a", "r", "g", "s", "_", "_">>, k |-> "method_descriptor", doc |-> -1, sig |-> 10],
          [n |-> <<"_", "_", "f", "o", "r", "m", "a", "t", "_", "_">>, k |-> "method_descriptor", doc |-> -1, sig |-> 23],
          [n |-> <<"_", "_", "s", "i", "z", "e", "o", "f", "_", "_">>, k |-> "method_descriptor", doc |-> 33, sig |-> 10],
          [n |-> <<"r", "e", "a", "l">>, k |-> "getset_descriptor", doc |-> 33, sig |-> -1],
          [n |-> <<"i", "m", "a", "g">>, k |-> "getset_descriptor", doc |-> 38, sig |-> -1],
          [n |-> <<"n", "u", "m", "e", "r", "a", "t", "o", "r">>, k |-> "getset_descriptor", doc |-> 50, sig |-> -1],
          [n |-> <<"d", "e", "n", "o", "m", "i", "n", "a", "t", "o", "r">>, k |-> "getset_descriptor", doc |-> 52, sig |-> -1],
          [n |-> <<"_", "_", "d", "o", "c", "_", "_">>, k |-> "str", doc |-> 605, sig |-> -1] >>]) @@
    ("bool" :>
       [name |-> <<"b", "o", "o", "l">>,
        module |-> <<"b", "u", "i", "l", "t", "i", "n", "s">>,
        mro |-> <<"bool", "int", "object">>, doc |-> 222, sig |-> -1,
        ns |-> <<
          [n |-> <<"_", "_", "n", "e", "w", "_", "_">>, k |-> "builtin_function_or_method", doc |-> 71, sig |-> 24],
          [n |-> <<"_", "_", "r", "e", "p", "r", "_", "_">>, k |-> "wrapper_descriptor", doc |-> 18, sig |-> 10],
          [n |-> <<"_", "_", "a", "n", "d", "_", "_">>, k |-> "wrapper_descriptor", doc |-> 18, sig |-> 17],
          [n |-> <<"_", "_", "r", "a", "n", "d", "_", "_">>, k |-> "wrapper_descriptor", doc |-> 18, sig |-> 17],
          [n |-> <<"_", "_", "x", "o", "r", "_", "_">>, k |-> "wrapper_descriptor", doc |-> 18, sig |-> 17],
          [n |-> <<"_", "_", "r", "x", "o", "r", "_", "_">>, k |-> "wrapper_descriptor", doc |-> 18, sig |-> 17],
          [n |-> <<"_", "_", "o", "r", "_", "_">>, k |-> "wrapper_descriptor", doc |-> 18, sig |-> 17],
          [n |-> <<"_", "_", "r", "o", "r", "_", "_">>, k |-> "wrapper_descriptor", doc |-> 18, sig |-> 17],
          [n |-> <<"_", "_", "d", "o", "c", "_", "_">>, k |-> "str", doc |-> 222, sig |-> -1] >>]) @@
    ("float" :>
       [name |-> <<"f", "l", "o", "a", "t">>,
        module |-> <<"b", "u", "i", "l", "t", "i", "n", "s">>,
        mro |-> <<"float", "object">>, doc |-> 67, sig |-> 8,
        ns |-> <<
          [n |-> <<"_", "_", "n", "e", "w", "_", "_">>, k |-> "builtin_function_or_method", doc |-> 71, sig |-> 24],
          [n |-> <<"_", "_", "r", "e", "p", "r", "_", "_">>, k |-> "wrapper_descriptor", doc |-> 18, sig |-> 10],
          [n |-> <<"_", "_", "h", "a", "s", "h", "_", "_">>, k |-> "wrapper_descriptor", doc |-> 18, sig |-> 10],
          [n |-> <<"_", "_", "g", "e", "t", "a", "t", "t", "r", "i", "b", "u", "t", "e", "_", "_">>, k |-> "wrapper_descriptor", doc |-> 27, sig |-> 16],
          [n |-> <<"_", "_", "l", "t", "_", "_">>, k |-> "wrapper_descriptor", doc |-> 18, sig |-> 17],
          [n |-> <<"_", "_", "l", "e", "_", "_">>, k |-> "wrapper_descriptor", doc |-> 19, sig |-> 17],
          [n |-> <<"_", "_", "e", "q", "_", "_">>, k |-> "wrapper_descriptor", doc |-> 19, sig |-> 17],
          [n |-> <<"_", "_", "n", "e", "_", "_">>, k |-> "wrapper_descriptor", doc |-> 19, sig |-> 17],
          [n |-> <<"_", "_", "g", "t", "_", "_">>, k |-> "wrapper_descriptor", doc |-> 18, sig |-> 17],
          [n |-> <<"_", "_", "g", "e", "_", "_">>, k |-> "wrapper_descriptor", doc |-> 19, sig |-> 17],
          [n |-> <<"_", "_", "a", "d", "d", "_", "_">>, k |-> "wrapper_descriptor", doc |-> 18, sig |-> 17],
          [n |-> <<"_", "_", "r", "a", "d", "d", "_", "_">>, k |-> "wrapper_descriptor", doc |-> 18, sig |-> 17],
          [n |-> <<"_", "_", "s", "u", "b", "_", "_">>, k |-> "wrapper_descriptor", doc |-> 18, sig |-> 17],
          [n |-> <<"_", "_", "r", "s", "u", "b", "_", "_">>, k |-> "wrapper_descriptor", doc |-> 18, sig |-> 17],
          [n |-> <<"_", "_", "m", "u", "l", "_", "_">>, k |-> "wrapper_descriptor", doc |-> 18, sig |-> 17],
          [n |-> <<"_", "_", "r", "m", "u", "l", "_", "_">>, k |-> "wrapper_descriptor", doc |-> 18, sig |-> 17],
          [n |-> <<"_", "_", "m", "o", "d", "_", "_">>, k |-> "wrapper_descriptor", doc |-> 18, sig |-> 17],
          [n |-> <<"_", "_", "r", "m", "o", "d", "_", "_">>, k |-> "wrapper_descriptor", doc |-> 18, sig |-> 17],
          [n |-> <<"_", "_", "d", "i", "v", "m", "o", "d", "_", "_">>, k |-> "wrapper_descriptor", doc |-> 27, sig |-> 17],
          [n |-> <<"_", "_", "r", "d", "i", "v", "m", "o", "d", "_", "_">>, k |-> "wrapper_descriptor", doc |-> 27, sig |-> 17],
          [n |-> <<"_", "_", "p", "o", "w", "_", "_">>, k |-> "wrapper_descriptor", doc |-> 29, sig |-> 27],
          [n |-> <<"_", "_", "r", "p", "o", "w", "_", "_">>, k |-> "wrapper_descriptor", doc |-> 29, sig |-> 27],
          [n |-> <<"_", "_", "n", "e", "g", "_", "_">>, k |-> "wrapper_descriptor", doc |-> 5, sig |-> 10],
          [n |-> <<"_", "_", "p", "o", "s", "_", "_">>, k |-> "wrapper_descriptor", doc |-> 5, sig |-> 10],
          [n |-> <<"_", "_", "a", "b", "s", "_", "_">>, k |-> "wrapper_descriptor", doc |-> 9, sig |-> 10],
          [n |-> <<"_", "_", "b", "o", "o", "l", "_", "_">>, k |-> "wrapper_descriptor", doc |-> 23, sig |-> 10],
          [n |-> <<"_", "_", "i", "n", "t", "_", "_">>, k |-> "wrapper_descriptor", doc |-> 9, sig |-> 10],
          [n |-> <<"_", "_", "f", "l", "o", "a", "t", "_", "_">>, k |-> "wrapper_descriptor", doc |-> 11, sig |-> 10],
          [n |-> <<"_", "_", "f", "l", "o", "o", "r", "d", "i", "v", "_", "_">>, k |-> "wrapper_descriptor", doc |-> 19, sig |-> 17],
          [n |-> <<"_", "_", "r", "f", "l", "o", "o", "r", "d", "i", "v", "_", "_">>, k |-> "wrapper_descriptor", doc |-> 19, sig |-> 17],
          [n |-> <<"_", "_", "t", "r", "u", "e", "d", "i", "v", "_", "_">>, k |-> "wrapper_descriptor", doc |-> 18, sig |-> 17],
          [n |-> <<"_", "_", "r", "t", "r", "u", "e", "d", "i", "v", "_", "_">>, k |-> "wrapper_descriptor", doc |-> 18, sig |-> 17],
          [n |-> <<"c", "o", "n", "j", "u", "g", "a", "t", "e">>, k |-> "method_descriptor", doc |-> 48, sig |-> 10],
          [n |-> <<"_", "_", "t", "r", "u", "n", "c", "_", "_">>, k |-> "method_descriptor", doc |-> 49, sig |-> 10],
          [n |-> <<"_", "_", "f", "l", "o", "o", "r", "_", "_">>, k |-> "method_descriptor", doc |-> 32, sig |-> 10],
          [n |-> <<"_", "_", "c", "e", "i", "l", "_", "_">>, k |-> "method_descriptor", doc |-> 34, sig |-> 10],
          [n |-> <<"_", "_", "r", "o", "u", "n", "d", "_", "_">>, k |-> "method_descriptor", doc |-> 127, sig |-> 24],
          [n |-> <<"a", "s", "_", "i", "n", "t", "e", "g", "e", "r", "_", "r", "a", "t", "i", "o">>, k |-> "method_descriptor", doc |-> 307, sig |-> 10],
          [n |-> <<"f", "r", "o", "m", "h", "e", "x">>, k |-> "classmethod_descriptor", doc |-> 143, sig |-> 18],
          [n |-> <<"h", "e", "x">>, k |-> "method_descriptor", doc |-> 146, sig |-> 10],
          [n |-> <<"i", "s", "_", "i", "n", "t", "e", "g", "e", "r">>, k |-> "method_descriptor", doc |-> 39, sig |-> 10],
          [n |-> <<"_", "_", "g", "e", "t", "n", "e", "w", "a", "r", "g", "s", "_", "_">>, k |-> "method_descriptor", doc |-> -1, sig |-> 10],
          [n |-> <<"_", "_", "g", "e", "t", "f", "o", "r", "m", "a", "t", "_", "_">>, k |-> "classmethod_descriptor", doc |-> 322, sig |-> 19],
          [n |-> <<"_", "_", "f", "o", "r", "m", "a", "t", "_", "_">>, k |-> "method_descriptor", doc |-> 43, sig |-> 23],
          [n |-> <<"r", "e", "a", "l">>, k |-> "getset_descriptor", doc |-> 33, sig |-> -1],
          [n |-> <<"i", "m", "a", "g">>, k |-> "getset_descriptor", doc |-> 38, sig |-> -1],
          [n |-> <<"_", "_", "d", "o", "c", "_", "_">>, k |-> "str", doc |-> 67, sig |-> -1] >>]) @@
    ("NoneType" :>
       [name |-> <<"N", "o", "n", "e", "T", "y", "p", "e">>,
        module |-> <<"b", "u", "i", "l", "t", "i", "n", "s">>,
        mro |-> <<"NoneType", "object">>, doc |-> -1, sig |-> -1,
        ns |-> <<
          [n |-> <<"_", "_", "n", "e", "w", "_", "_">>, k |-> "builtin_function_or_method", doc |-> 71, sig |-> 24],
          [n |-> <<"_", "_", "r", "e", "p", "r", "_", "_">>, k |-> "wrapper_descriptor", doc |-> 18, sig |-> 10],
          [n |-> <<"_", "_", "b", "o", "o", "l", "_", "_">>, k |-> "wrapper_descriptor", doc |-> 23, sig |-> 10],
          [n |-> <<"_", "_", "d", "o", "c", "_", "_">>, k |-> "NoneType", doc |-> -1, sig |-> -1] >>]) @@
    ("Item" :>
       [name |-> <<"I", "t", "e", "m">>,
        module |-> <<"_", "_", "m", "a", "i", "n", "_", "_">>,
        mro |-> <<"Item", "object">>, doc |-> -1, sig |-> -1,
        ns |-> <<
          [n |-> <<"_", "_", "m", "o", "d", "u", "l", "e", "_", "_">>, k |-> "str", doc |-> 8, sig |-> -1],
          [n |-> <<"_", "_", "d", "i", "c", "t", "_", "_">>, k |-> "getset_descriptor", doc |-> 33, sig |-> -1],
          [n |-> <<"_", "_", "w", "e", "a", "k", "r", "e", "f", "_", "_">>, k |-> "getset_descriptor", doc |-> 37, sig |-> -1],
          [n |-> <<"_", "_", "d", "o", "c", "_", "_">>, k |-> "NoneType", doc |-> -1, sig |-> -1] >>]) @@
    ("object" :>
       [name |-> <<"o", "b", "j", "e", "c", "t">>,
        module |-> <<"b", "u", "i", "l", "t", "i", "n", "s">>,
        mro |-> <<"object">>, doc |-> 173, sig |-> 2,
        ns |-> <<
          [n |-> <<"_", "_", "n", "e", "w", "_", "_">>, k |-> "builtin_function_or_method", doc |-> 71, sig |-> 24],
          [n |-> <<"_", "_", "r", "e", "p", "r", "_", "_">>, k |-> "wrapper_descriptor", doc |-> 18, sig |-> 10],
          [n |-> <<"_", "_", "h", "a", "s", "h", "_", "_">>, k |-> "wrapper_descriptor", doc |-> 18, sig |-> 10],
          [n |-> <<"_", "_", "s", "t", "r", "_", "_">>, k |-> "wrapper_descriptor", doc |-> 17, sig |-> 10],
          [n |-> <<"_", "_", "g", "e", "t", "a", "t", "t", "r", "i", "b", "u", "t", "e", "_", "_">>, k |-> "wrapper_descriptor", doc |-> 27, sig |-> 16],
          [n |-> <<"_", "_", "s", "e", "t", "a", "t", "t", "r", "_", "_">>, k |-> "wrapper_descriptor", doc |-> 37, sig |-> 23],
          [n |-> <<"_", "_", "d", "e", "l", "a", "t", "t", "r", "_", "_">>, k |-> "wrapper_descriptor", doc |-> 30, sig |-> 16],
          [n |-> <<"_", "_", "l", "t", "_", "_">>, k |-> "wrapper_descriptor", doc |-> 18, sig |-> 17],
          [n |-> <<"_", "_", "l", "e", "_", "_">>, k |-> "wrapper_descriptor", doc |-> 19, sig |-> 17],
          [n |-> <<"_", "_", "e", "q", "_", "_">>, k |-> "wrapper_descriptor", doc |-> 19, sig |-> 17],
          [n |-> <<"_", "_", "n", "e", "_", "_">>, k |-> "wrapper_descriptor", doc |-> 19, sig |-> 17],
          [n |-> <<"_", "_", "g", "t", "_", "_">>, k |-> "wrapper_descriptor", doc |-> 18, sig |-> 17],
          [n |-> <<"_", "_", "g", "e", "_", "_">>, k |-> "wrapper_descriptor", doc |-> 19, sig |-> 17],
          [n |-> <<"_", "_", "i", "n", "i", "t", "_", "_">>, k |-> "wrapper_descriptor", doc |-> 62, sig |-> 27],
          [n |-> <<"_", "_", "r", "e", "d", "u", "c", "e", "_", "e", "x", "_", "_">>, k |-> "method_descriptor", doc |-> 18, sig |-> 20],
          [n |-> <<"_", "_", "r", "e", "d", "u", "c", "e", "_", "_">>, k |-> "method_descriptor", doc |-> 18, sig |-> 10],
          [n |-> <<"_", "_", "g", "e", "t", "s", "t", "a", "t", "e", "_", "_">>, k |-> "method_descriptor", doc |-> 18, sig |-> 10],
          [n |-> <<"_", "_", "s", "u", "b", "c", "l", "a", "s", "s", "h", "o", "o", "k", "_", "_">>, k |-> "classmethod_descriptor", doc |-> 308, sig |-> -1],
          [n |-> <<"_", "_", "i", "n", "i", "t", "_", "s", "u", "b", "c", "l", "a", "s", "s", "_", "_">>, k |-> "classmethod_descriptor", doc |-> 135, sig |-> -1],
          [n |-> <<"_", "_", "f", "o", "r", "m", "a", "t", "_", "_">>, k |-> "method_descriptor", doc |-> 25, sig |-> 23],
          [n |-> <<"_", "_", "s", "i", "z", "e", "o", "f", "_", "_">>, k |-> "method_descriptor", doc |-> 35, sig |-> 10],
          [n |-> <<"_", "_", "d", "i", "r", "_", "_">>, k |-> "method_descriptor", doc |-> 29, sig |-> 10],
          [n |-> <<"_", "_", "c", "l", "a", "s", "s", "_", "_">>, k |-> "getset_descriptor", doc |-> 18, sig |-> -1],
          [n |-> <<"_", "_", "d", "o", "c", "_", "_">>, k |-> "str", doc |-> 173, sig |-> -1] >>]) @@
    ("type" :>
       [name |-> <<"t", "y", "p", "e">>,
        module |-> <<"b", "u", "i", "l", "t", "i", "n", "s">>,
        mro |-> <<"type", "object">>, doc |-> 79, sig |-> -1,
        ns |-> <<
          [n |-> <<"_", "_", "n", "e", "w", "_", "_">>, k |-> "builtin_function_or_method", doc |-> 71, sig |-> 24],
          [n |-> <<"_", "_", "r", "e", "p", "r", "_", "_">>, k |-> "wrapper_descriptor", doc |-> 18, sig |-> 10],
          [n |-> <<"_", "_", "c", "a", "l", "l", "_", "_">>, k |-> "wrapper_descriptor", doc |-> 24, sig |-> 27],
          [n |-> <<"_", "_", "g", "e", "t", "a", "t", "t", "r", "i", "b", "u", "t", "e", "_", "_">>, k |-> "wrapper_descriptor", doc |-> 27, sig |-> 16],
          [n |-> <<"_", "_", "s", "e", "t", "a", "t", "t", "r", "_", "_">>, k |-> "wrapper_descriptor", doc |-> 37, sig |-> 23],
          [n |-> <<"_", "_", "d", "e", "l", "a", "t", "t", "r", "_", "_">>, k |-> "wrapper_descriptor", doc |-> 30, sig |-> 16],
          [n |-> <<"_", "_", "i", "n", "i", "t", "_", "_">>, k |-> "wrapper_descriptor", doc |-> 62, sig |-> 27],
          [n |-> <<"_", "_", "o", "r", "_", "_">>, k |-> "wrapper_descriptor", doc |-> 18, sig |-> 17],
          [n |-> <<"_", "_", "r", "o", "r", "_", "_">>, k |-> "wrapper_descriptor", doc |-> 18, sig |-> 17],
          [n |-> <<"m", "r", "o">>, k |-> "method_descriptor", doc |-> 40, sig |-> 10],
          [n |-> <<"_", "_", "s", "u", "b", "c", "l", "a", "s", "s", "e", "s", "_", "_">>, k |-> "method_descriptor", doc |-> 38, sig |-> 10],
          [n |-> <<"_", "_", "p", "r", "e", "p", "a", "r", "e", "_", "_">>, k |-> "classmethod_descriptor", doc |-> 74, sig |-> -1],
          [n |-> <<"_", "_", "i", "n", "s", "t", "a", "n", "c", "e", "c", "h", "e", "c", "k", "_", "_">>, k |-> "method_descriptor", doc |-> 34, sig |-> 20],
          [n |-> <<"_", "_", "s", "u", "b", "c", "l", "a", "s", "s", "c", "h", "e", "c", "k", "_", "_">>, k |-> "method_descriptor", doc |-> 31, sig |-> 20],
          [n |-> <<"_", "_", "d", "i", "r", "_", "_">>, k |-> "method_descriptor", doc |-> 45, sig |-> 10],
          [n |-> <<"_", "_", "s", "i", "z", "e", "o", "f", "_", "_">>, k |-> "method_descriptor", doc |-> 45, sig |-> 10],
          [n |-> <<"_", "_", "b", "a", "s", "i", "c", "s", "i", "z", "e", "_", "_">>, k |-> "member_descriptor", doc |-> -1, sig |-> -1],
          [n |-> <<"_", "_", "i", "t", "e", "m", "s", "i", "z", "e", "_", "_">>, k |-> "member_descriptor", doc |-> -1, sig |-> -1],
          [n |-> <<"_", "_", "f", "l", "a", "g", "s", "_", "_">>, k |-> "member_descriptor", doc |-> -1, sig |-> -1],
          [n |-> <<"_", "_", "w", "e", "a", "k", "r", "e", "f", "o", "f", "f", "s", "e", "t", "_", "_">>, k |-> "member_descriptor", doc |-> -1, sig |-> -1],
          [n |-> <<"_", "_", "b", "a", "s", "e", "_", "_">>, k |-> "member_descriptor", doc |-> -1, sig |-> -1],
          [n |-> <<"_", "_", "d", "i", "c", "t", "o", "f", "f", "s", "e", "t", "_", "_">>, k |-> "member_descriptor", doc |-> -1, sig |-> -1],
          [n |-> <<"_", "_", "m", "r", "o", "_", "_">>, k |-> "member_descriptor", doc |-> -1, sig |-> -1],
          [n |-> <<"_", "_", "n", "a", "m", "e", "_", "_">>, k |-> "getset_descriptor", doc |-> -1, sig |-> -1],
          [n |-> <<"_", "_", "q", "u", "a", "l", "n", "a", "m", "e", "_", "_">>, k |-> "getset_descriptor", doc |-> -1, sig |-> -1],
          [n |-> <<"_", "_", "b", "a", "s", "e", "s", "_", "_">>, k |-> "getset_descriptor", doc |-> -1, sig |-> -1],
          [n |-> <<"_", "_", "m", "o", "d", "u", "l", "e", "_", "_">>, k |-> "getset_descriptor", doc |-> -1, sig |-> -1],
          [n |-> <<"_", "_", "a", "b", "s", "t", "r", "a", "c", "t", "m", "e", "t", "h", "o", "d", "s", "_", "_">>, k |-> "getset_descriptor", doc |-> -1, sig |-> -1],
          [n |-> <<"_", "_", "d", "i", "c", "t", "_", "_">>, k |-> "getset_descriptor", doc |-> -1, sig |-> -1],
          [n |-> <<"_", "_", "d", "o", "c", "_", "_">>, k |-> "getset_descriptor", doc |-> -1, sig |-> -1],
          [n |-> <<"_", "_", "t", "e", "x", "t", "_", "s", "i", "g", "n", "a", "t", "u", "r", "e", "_", "_">>, k |-> "getset_descriptor", doc |-> -1, sig |-> -1],
          [n |-> <<"_", "_", "a", "n", "n", "o", "t", "a", "t", "i", "o", "n", "s", "_", "_">>, k |-> "getset_descriptor", doc |-> -1, sig |-> -1] >>]) @@
    ("tuple" :>
       [name |-> <<"t", "u", "p", "l", "e">>,
        module |-> <<"b", "u", "i", "l", "t", "i", "n", "s">>,
        mro |-> <<"tuple", "object">>, doc |-> 233, sig |-> 16,
        ns |-> <<
          [n |-> <<"_", "_", "n", "e", "w", "_", "_">>, k |-> "builtin_function_or_method", doc |-> 71, sig |-> 24],
          [n |-> <<"_", "_", "r", "e", "p", "r", "_", "_">>, k |-> "wrapper_descriptor", doc |-> 18, sig |-> 10],
          [n |-> <<"_", "_", "h", "a", "s", "h", "_", "_">>, k |-> "wrapper_descriptor", doc |-> 18, sig |-> 10],
          [n |-> <<"_", "_", "g", "e", "t", "a", "t", "t", "r", "i", "b", "u", "t", "e", "_", "_">>, k |-> "wrapper_descriptor", doc |-> 27, sig |-> 16],
          [n |-> <<"_", "_", "l", "t", "_", "_">>, k |-> "wrapper_descriptor", doc |-> 18, sig |-> 17],
          [n |-> <<"_", "_", "l", "e", "_", "_">>, k |-> "wrapper_descriptor", doc |-> 19, sig |-> 17],
          [n |-> <<"_", "_", "e", "q", "_", "_">>, k |-> "wrapper_descriptor", doc |-> 19, sig |-> 17],
          [n |-> <<"_", "_", "n", "e", "_", "_">>, k |-> "wrapper_descriptor", doc |-> 19, sig |-> 17],
          [n |-> <<"_", "_", "g", "t", "_", "_">>, k |-> "wrapper_descriptor", doc |-> 18, sig |-> 17],
          [n |-> <<"_", "_", "g", "e", "_", "_">>, k |-> "wrapper_descriptor", doc |-> 19, sig |-> 17],
          [n |-> <<"_", "_", "i", "t", "e", "r", "_", "_">>, k |-> "wrapper_descriptor", doc |-> 21, sig |-> 10],
          [n |-> <<"_", "_", "l", "e", "n", "_", "_">>, k |-> "wrapper_descriptor", doc |-> 17, sig |-> 10],
          [n |-> <<"_", "_", "g", "e", "t", "i", "t", "e", "m", "_", "_">>, k |-> "wrapper_descriptor", doc |-> 17, sig |-> 15],
          [n |-> <<"_", "_", "a", "d", "d", "_", "_">>, k |-> "wrapper_descriptor", doc |-> 18, sig |-> 17],
          [n |-> <<"_", "_", "m", "u", "l", "_", "_">>, k |-> "wrapper_descriptor", doc |-> 18, sig |-> 17],
          [n |-> <<"_", "_", "r", "m", "u", "l", "_", "_">>, k |-> "wrapper_descriptor", doc |-> 18, sig |-> 17],
          [n |-> <<"_", "_", "c", "o", "n", "t", "a", "i", "n", "s", "_", "_">>, k |-> "wrapper_descriptor", doc |-> 19, sig |-> 15],
          [n |-> <<"_", "_", "g", "e", "t", "n", "e", "w", "a", "r", "g", "s", "_", "_">>, k |-> "method_descriptor", doc |-> -1, sig |-> 10],
          [n |-> <<"i", "n", "d", "e", "x">>, k |-> "method_descriptor", doc |-> 76, sig |-> 44],
          [n |-> <<"c", "o", "u", "n", "t">>, k |-> "method_descriptor", doc |-> 38, sig |-> 17],
          [n |-> <<"_", "_", "c", "l", "a", "s", "s", "_", "g", "e", "t", "i", "t", "e", "m", "_", "_">>, k |-> "classmethod_descriptor", doc |-> 11, sig |-> -1],
          [n |-> <<"_", "_", "d", "o", "c", "_", "_">>, k |-> "str", doc |-> 233, sig |-> -1] >>]) @@
    ("builtin_function_or_method" :>
       [name |-> <<"b", "u", "i", "l", "t", "i", "n", "_", "f", "u", "n", "c", "t", "i", "o", "n", "_", "o", "r", "_", "m", "e", "t", "h", "o", "d">>,
        module |-> <<"b", "u", "i", "l", "t", "i", "n", "s">>,
        mro |-> <<"builtin_function_or_method", "object">>, doc |-> -2, sig |-> -1,
        ns |-> <<
          [n |-> <<"_", "_", "r", "e", "p", "r", "_", "_">>, k |-> "wrapper_descriptor", doc |-> 18, sig |-> 10],
          [n |-> <<"_", "_", "h", "a", "s", "h", "_", "_">>, k |-> "wrapper_descriptor", doc |-> 18, sig |-> 10],
          [n |-> <<"_", "_", "c", "a", "l", "l", "_", "_">>, k |-> "wrapper_descriptor", doc |-> 24, sig |-> 27],
          [n |-> <<"_", "_", "g", "e", "t", "a", "t", "t", "r", "i", "b", "u", "t", "e", "_", "_">>, k |-> "wrapper_descriptor", doc |-> 27, sig |-> 16],
          [n |-> <<"_", "_", "l", "t", "_", "_">>, k |-> "wrapper_descriptor", doc |-> 18, sig |-> 17],
          [n |-> <<"_", "_", "l", "e", "_", "_">>, k |-> "wrapper_descriptor", doc |-> 19, sig |-> 17],
          [n |-> <<"_", "_", "e", "q", "_", "_">>, k |-> "wrapper_descriptor", doc |-> 19, sig |-> 17],
          [n |-> <<"_", "_", "n", "e", "_", "_">>, k |-> "wrapper_descriptor", doc |-> 19, sig |-> 17],
          [n |-> <<"_", "_", "g", "t", "_", "_">>, k |-> "wrapper_descriptor", doc |-> 18, sig |-> 17],
          [n |-> <<"_", "_", "g", "e", "_", "_">>, k |-> "wrapper_descriptor", doc |-> 19, sig |-> 17],
          [n |-> <<"_", "_", "r", "e", "d", "u", "c", "e", "_", "_">>, k |-> "method_descriptor", doc |-> -1, sig |-> -1],
          [n |-> <<"_", "_", "m", "o", "d", "u", "l", "e", "_", "_">>, k |-> "member_descriptor", doc |-> -1, sig |-> -1],
          [n |-> <<"_", "_", "d", "o", "c", "_", "_">>, k |-> "getset_descriptor", doc |-> -1, sig |-> -1],
          [n |-> <<"_", "_", "n", "a", "m", "e", "_", "_">>, k |-> "getset_descriptor", doc |-> -1, sig |-> -1],
          [n |-> <<"_", "_", "q", "u", "a", "l", "n", "a", "m", "e", "_", "_">>, k |-> "getset_descriptor", doc |-> -1, sig |-> -1],
          [n |-> <<"_", "_", "s", "e", "l", "f", "_", "_">>, k |-> "getset_descriptor", doc |-> -1, sig |-> -1],
          [n |-> <<"_", "_", "t", "e", "x", "t", "_", "s", "i", "g", "n", "a", "t", "u", "r", "e", "_", "_">>, k |-> "getset_descriptor", doc |-> -1, sig |-> -1] >>]) @@
    ("method-wrapper" :>
       [name |-> <<"m", "e", "t", "h", "o", "d", "-", "w", "r", "a", "p", "p", "e", "r">>,
        module |-> <<"b", "u", "i", "l", "t", "i", "n", "s">>,
        mro |-> <<"method-wrapper", "object">>, doc |-> -2, sig |-> -1,
        ns |-> <<
          [n |-> <<"_", "_", "r", "e", "p", "r", "_", "_">>, k |-> "wrapper_descriptor", doc |-> 18, sig |-> 10],
          [n |-> <<"_", "_", "h", "a", "s", "h", "_", "_">>, k |-> "wrapper_descriptor", doc |-> 18, sig |-> 10],
          [n |-> <<"_", "_", "c", "a", "l", "l", "_", "_">>, k |-> "wrapper_descriptor", doc |-> 24, sig |-> 27],
          [n |-> <<"_", "_", "g", "e", "t", "a", "t", "t", "r", "i", "b", "u", "t", "e", "_", "_">>, k |-> "wrapper_descriptor", doc |-> 27, sig |-> 16],
          [n |-> <<"_", "_", "l", "t", "_", "_">>, k |-> "wrapper_descriptor", doc |-> 18, sig |-> 17],
          [n |-> <<"_", "_", "l", "e", "_", "_">>, k |-> "wrapper_descriptor", doc |-> 19, sig |-> 17],
          [n |-> <<"_", "_", "e", "q", "_", "_">>, k |-> "wrapper_descriptor", doc |-> 19, sig |-> 17],
          [n |-> <<"_", "_", "n", "e", "_", "_">>, k |-> "wrapper_descriptor", doc |-> 19, sig |-> 17],
          [n |-> <<"_", "_", "g", "t", "_", "_">>, k |-> "wrapper_descriptor", doc |-> 18, sig |-> 17],
          [n |-> <<"_", "_", "g", "e", "_", "_">>, k |-> "wrapper_descriptor", doc |-> 19, sig |-> 17],
          [n |-> <<"_", "_", "r", "e", "d", "u", "c", "e", "_", "_">>, k |-> "method_descriptor", doc |-> -1, sig |-> -1],
          [n |-> <<"_", "_", "s", "e", "l", "f", "_", "_">>, k |-> "member_descriptor", doc |-> -1, sig |-> -1],
          [n |-> <<"_", "_", "o", "b", "j", "c", "l", "a", "s", "s", "_", "_">>, k |-> "getset_descriptor", doc |-> -1, sig |-> -1],
          [n |-> <<"_", "_", "n", "a", "m", "e", "_", "_">>, k |-> "getset_descriptor", doc |-> -1, sig |-> -1],
          [n |-> <<"_", "_", "q", "u", "a", "l", "n", "a", "m", "e", "_", "_">>, k |-> "getset_descriptor", doc |-> -1, sig |-> -1],
          [n |-> <<"_", "_", "d", "o", "c", "_", "_">>, k |-> "getset_descriptor", doc |-> -1, sig |-> -1],
          [n |-> <<"_", "_", "t", "e", "x", "t", "_", "s", "i", "g", "n", "a", "t", "u", "r", "e", "_", "_">>, k |-> "getset_descriptor", doc |-> -1, sig |-> -1] >>]) @@
    ("method_descriptor" :>
       [name |-> <<"m", "e", "t", "h", "o", "d", "_", "d", "e", "s", "c", "r", "i", "p", "t", "o", "r">>,
        module |-> <<"b", "u", "i", "l", "t", "i", "n", "s">>,
        mro |-> <<"method_descriptor", "object">>, doc |-> -2, sig |-> -1,
        ns |-> <<
          [n |-> <<"_", "_", "r", "e", "p", "r", "_", "_">>, k |-> "wrapper_descriptor", doc |-> 18, sig |-> 10],
          [n |-> <<"_", "_", "c", "a", "l", "l", "_", "_">>, k |-> "wrapper_descriptor", doc |-> 24, sig |-> 27],
          [n |-> <<"_", "_", "g", "e", "t", "a", "t", "t", "r", "i", "b", "u", "t", "e", "_", "_">>, k |-> "wrapper_descriptor", doc |-> 27, sig |-> 16],
          [n |-> <<"_", "_", "g", "e", "t", "_", "_">>, k |-> "wrapper_descriptor", doc |-> 56, sig |-> 32],
          [n |-> <<"_", "_", "r", "e", "d", "u", "c", "e", "_", "_">>, k |-> "method_descriptor", doc |-> -1, sig |-> -1],
          [n |-> <<"_", "_", "o", "b", "j", "c", "l", "a", "s", "s", "_", "_">>, k |-> "member_descriptor", doc |-> -1, sig |-> -1],
          [n |-> <<"_", "_", "n", "a", "m", "e", "_", "_">>, k |-> "member_descriptor", doc |-> -1, sig |-> -1],
          [n |-> <<"_", "_", "d", "o", "c", "_", "_">>, k |-> "getset_descriptor", doc |-> -1, sig |-> -1],
          [n |-> <<"_", "_", "q", "u", "a", "l", "n", "a", "m", "e", "_", "_">>, k |-> "getset_descriptor", doc |-> -1, sig |-> -1],
          [n |-> <<"_", "_", "t", "e", "x", "t", "_", "s", "i", "g", "n", "a", "t", "u", "r", "e", "_", "_">>, k |-> "getset_descriptor", doc |-> -1, sig |-> -1] >>]) @@
    ("wrapper_descriptor" :>
       [name |-> <<"w", "r", "a", "p", "p", "e", "r", "_", "d", "e", "s", "c", "r", "i", "p", "t", "o", "r">>,
        module |-> <<"b", "u", "i", "l", "t", "i", "n", "s">>,
        mro |-> <<"wrapper_descriptor", "object">>, doc |-> -2, sig |-> -1,
        ns |-> <<
          [n |-> <<"_", "_", "r", "e", "p", "r", "_", "_">>, k |-> "wrapper_descriptor", doc |-> 18, sig |-> 10],
          [n |-> <<"_", "_", "c", "a", "l", "l", "_", "_">>, k |-> "wrapper_descriptor", doc |-> 24, sig |-> 27],
          [n |-> <<"_", "_", "g", "e", "t", "a", "t", "t", "r", "i", "b", "u", "t", "e", "_", "_">>, k |-> "wrapper_descriptor", doc |-> 27, sig |-> 16],
          [n |-> <<"_", "_", "g", "e", "t", "_", "_">>, k |-> "wrapper_descriptor", doc |-> 56, sig |-> 32],
          [n |-> <<"_", "_", "r", "e", "d", "u", "c", "e", "_", "_">>, k |-> "method_descriptor", doc |-> -1, sig |-> -1],
          [n |-> <<"_", "_", "o", "b", "j", "c", "l", "a", "s", "s", "_", "_">>, k |-> "member_descriptor", doc |-> -1, sig |-> -1],
          [n |-> <<"_", "_", "n", "a", "m", "e", "_", "_">>, k |-> "member_descriptor", doc |-> -1, sig |-> -1],
          [n |-> <<"_", "_", "d", "o", "c", "_", "_">>, k |-> "getset_descriptor", doc |-> -1, sig |-> -1],
          [n |-> <<"_", "_", "q", "u", "a", "l", "n", "a", "m", "e", "_", "_">>, k |-> "getset_descriptor", doc |-> -1, sig |-> -1],
          [n |-> <<"_", "_", "t", "e", "x", "t", "_", "s", "i", "g", "n", "a", "t", "u", "r", "e", "_", "_">>, k |-> "getset_descriptor", doc |-> -1, sig |-> -1] >>]) @@
    ("getset_descriptor" :>
       [name |-> <<"g", "e", "t", "s", "e", "t", "_", "d", "e", "s", "c", "r", "i", "p", "t", "o", "r">>,
        module |-> <<"b", "u", "i", "l", "t", "i", "n", "s">>,
        mro |-> <<"getset_descriptor", "object">>, doc |-> -2, sig |-> -1,
        ns |-> <<
          [n |-> <<"_", "_", "r", "e", "p", "r", "_", "_">>, k |-> "wrapper_descriptor", doc |-> 18, sig |-> 10],
          [n |-> <<"_", "_", "g", "e", "t", "a", "t", "t", "r", "i", "b", "u", "t", "e", "_", "_">>, k |-> "wrapper_descriptor", doc |-> 27, sig |-> 16],
          [n |-> <<"_", "_", "g", "e", "t", "_", "_">>, k |-> "wrapper_descriptor", doc |-> 56, sig |-> 32],
          [n |-> <<"_", "_", "s", "e", "t", "_", "_">>, k |-> "wrapper_descriptor", doc |-> 38, sig |-> 27],
          [n |-> <<"_", "_", "d", "e", "l", "e", "t", "e", "_", "_">>, k |-> "wrapper_descriptor", doc |-> 32, sig |-> 20],
          [n |-> <<"_", "_", "o", "b", "j", "c", "l", "a", "s", "s", "_", "_">>, k |-> "member_descriptor", doc |-> -1, sig |-> -1],
          [n |-> <<"_", "_", "n", "a", "m", "e", "_", "_">>, k |-> "member_descriptor", doc |-> -1, sig |-> -1],
          [n |-> <<"_", "_", "d", "o", "c", "_", "_">>, k |-> "getset_descriptor", doc |-> -1, sig |-> -1],
          [n |-> <<"_", "_", "q", "u", "a", "l", "n", "a", "m", "e", "_", "_">>, k |-> "getset_descriptor", doc |-> -1, sig |-> -1] >>]) @@
    ("member_descriptor" :>
       [name |-> <<"m", "e", "m", "b", "e", "r", "_", "d", "e", "s", "c", "r", "i", "p", "t", "o", "r">>,
        module |-> <<"b", "u", "i", "l", "t", "i", "n", "s">>,
        mro |-> <<"member_descriptor", "object">>, doc |-> -2, sig |-> -1,
        ns |-> <<
          [n |-> <<"_", "_", "r", "e", "p", "r", "_", "_">>, k |-> "wrapper_descriptor", doc |-> 18, sig |-> 10],
          [n |-> <<"_", "_", "g", "e", "t", "a", "t", "t", "r", "i", "b", "u", "t", "e", "_", "_">>, k |-> "wrapper_descriptor", doc |-> 27, sig |-> 16],
          [n |-> <<"_", "_", "g", "e", "t", "_", "_">>, k |-> "wrapper_descriptor", doc |-> 56, sig |-> 32],
          [n |-> <<"_", "_", "s", "e", "t", "_", "_">>, k |-> "wrapper_descriptor", doc |-> 38, sig |-> 27],
          [n |-> <<"_", "_", "d", "e", "l", "e", "t", "e", "_", "_">>, k |-> "wrapper_descriptor", doc |-> 32, sig |-> 20],
          [n |-> <<"_", "_", "r", "e", "d", "u", "c", "e", "_", "_">>, k |-> "method_descriptor", doc |-> -1, sig |-> -1],
          [n |-> <<"_", "_", "o", "b", "j", "c", "l", "a", "s", "s", "_", "_">>, k |-> "member_descriptor", doc |-> -1, sig |-> -1],
          [n |-> <<"_", "_", "n", "a", "m", "e", "_", "_">>, k |-> "member_descriptor", doc |-> -1, sig |-> -1],
          [n |-> <<"_", "_", "d", "o", "c", "_", "_">>, k |-> "getset_descriptor", doc |-> -1, sig |-> -1],
          [n |-> <<"_", "_", "q", "u", "a", "l", "n", "a", "m", "e", "_", "_">>, k |-> "getset_descriptor", doc |-> -1, sig |-> -1] >>]) @@
    ("classmethod_descriptor" :>
       [name |-> <<"c", "l", "a", "s", "s", "m", "e", "t", "h", "o", "d", "_", "d", "e", "s", "c", "r", "i", "p", "t", "o", "r">>,
        module |-> <<"b", "u", "i", "l", "t", "i", "n", "s">>,
        mro |-> <<"classmethod_descriptor", "object">>, doc |-> -2, sig |-> -1,
        ns |-> <<
          [n |-> <<"_", "_", "r", "e", "p", "r", "_", "_">>, k |-> "wrapper_descriptor", doc |-> 18, sig |-> 10],
          [n |-> <<"_", "_", "c", "a", "l", "l", "_", "_">>, k |-> "wrapper_descriptor", doc |-> 24, sig |-> 27],
          [n |-> <<"_", "_", "g", "e", "t", "a", "t", "t", "r", "i", "b", "u", "t", "e", "_", "_">>, k |-> "wrapper_descriptor", doc |-> 27, sig |-> 16],
          [n |-> <<"_", "_", "g", "e", "t", "_", "_">>, k |-> "wrapper_descriptor", doc |-> 56, sig |-> 32],
          [n |-> <<"_", "_", "o", "b", "j", "c", "l", "a", "s", "s", "_", "_">>, k |-> "member_descriptor", doc |-> -1, sig |-> -1],
          [n |-> <<"_", "_", "n", "a", "m", "e", "_", "_">>, k |-> "member_descriptor", doc |-> -1, sig |-> -1],
          [n |-> <<"_", "_", "d", "o", "c", "_", "_">>, k |-> "getset_descriptor", doc |-> -1, sig |-> -1],
          [n |-> <<"_", "_", "q", "u", "a", "l", "n", "a", "m", "e", "_", "_">>, k |-> "getset_descriptor", doc |-> -1, sig |-> -1],
          [n |-> <<"_", "_", "t", "e", "x", "t", "_", "s", "i", "g", "n", "a", "t", "u", "r", "e", "_", "_">>, k |-> "getset_descriptor", doc |-> -1, sig |-> -1] >>]) @@
    ("mappingproxy" :>
       [name |-> <<"m", "a", "p", "p", "i", "n", "g", "p", "r", "o", "x", "y">>,
        module |-> <<"b", "u", "i", "l", "t", "i", "n", "s">>,
        mro |-> <<"mappingproxy", "object">>, doc |-> -1, sig |-> -1,
        ns |-> <<
          [n |-> <<"_", "_", "n", "e", "w", "_", "_">>, k |-> "builtin_function_or_method", doc |-> 71, sig |-> 24],
          [n |-> <<"_", "_", "r", "e", "p", "r", "_", "_">>, k |-> "wrapper_descriptor", doc |-> 18, sig |-> 10],
          [n |-> <<"_", "_", "s", "t", "r", "_", "_">>, k |-> "wrapper_descriptor", doc |-> 17, sig |-> 10],
          [n |-> <<"_", "_", "g", "e", "t", "a", "t", "t", "r", "i", "b", "u", "t", "e", "_", "_">>, k |-> "wrapper_descriptor", doc |-> 27, sig |-> 16],
          [n |-> <<"_", "_", "l", "t", "_", "_">>, k |-> "wrapper_descriptor", doc |-> 18, sig |-> 17],
          [n |-> <<"_", "_", "l", "e", "_", "_">>, k |-> "wrapper_descriptor", doc |-> 19, sig |-> 17],
          [n |-> <<"_", "_", "e", "q", "_", "_">>, k |-> "wrapper_descriptor", doc |-> 19, sig |-> 17],
          [n |-> <<"_", "_", "n", "e", "_", "_">>, k |-> "wrapper_descriptor", doc |-> 19, sig |-> 17],
          [n |-> <<"_", "_", "g", "t", "_", "_">>, k |-> "wrapper_descriptor", doc |-> 18, sig |-> 17],
          [n |-> <<"_", "_", "g", "e", "_", "_">>, k |-> "wrapper_descriptor", doc |-> 19, sig |-> 17],
          [n |-> <<"_", "_", "i", "t", "e", "r", "_", "_">>, k |-> "wrapper_descriptor", doc |-> 21, sig |-> 10],
          [n |-> <<"_", "_", "o", "r", "_", "_">>, k |-> "wrapper_descriptor", doc |-> 18, sig |-> 17],
          [n |-> <<"_", "_", "r", "o", "r", "_", "_">>, k |-> "wrapper_descriptor", doc |-> 18, sig |-> 17],
          [n |-> <<"_", "_", "i", "o", "r", "_", "_">>, k |-> "wrapper_descriptor", doc |-> 19, sig |-> 17],
          [n |-> <<"_", "_", "l", "e", "n", "_", "_">>, k |-> "wrapper_descriptor", doc |-> 17, sig |-> 10],
          [n |-> <<"_", "_", "g", "e", "t", "i", "t", "e", "m", "_", "_">>, k |-> "wrapper_descriptor", doc |-> 17, sig |-> 15],
          [n |-> <<"_", "_", "c", "o", "n", "t", "a", "i", "n", "s", "_", "_">>, k |-> "wrapper_descriptor", doc |-> 19, sig |-> 15],
          [n |-> <<"g", "e", "t">>, k |-> "method_descriptor", doc |-> 60, sig |-> -1],
          [n |-> <<"k", "e", "y", "s">>, k |-> "method_descriptor", doc |-> 58, sig |-> -1],
          [n |-> <<"v", "a", "l", "u", "e", "s">>, k |-> "method_descriptor", doc |-> 54, sig |-> -1],
          [n |-> <<"i", "t", "e", "m", "s">>, k |-> "method_descriptor", doc |-> 60, sig |-> -1],
          [n |-> <<"c", "o", "p", "y">>, k |-> "method_descriptor", doc |-> 31, sig |-> -1],
          [n |-> <<"_", "_", "c", "l", "a", "s", "s", "_", "g", "e", "t", "i", "t", "e", "m", "_", "_">>, k |-> "classmethod_descriptor", doc |-> 11, sig |-> -1],
          [n |-> <<"_", "_", "r", "e", "v", "e", "r", "s", "e", "d", "_", "_">>, k |-> "method_descriptor", doc |-> 36, sig |-> -1],
          [n |-> <<"_", "_", "d", "o", "c", "_", "_">>, k |-> "NoneType", doc |-> -1, sig |-> -1],
          [n |-> <<"_", "_", "h", "a", "s", "h", "_", "_">>, k |-> "NoneType", doc |-> -1, sig |-> -1] >>]) @@
    ("GenericAlias" :>
       [name |-> <<"G", "e", "n", "e", "r", "i", "c", "A", "l", "i", "a", "s">>,
        module |-> <<"t", "y", "p", "e", "s">>,
        mro |-> <<"GenericAlias", "object">>, doc |-> 104, sig |-> -1,
        ns |-> <<
          [n |-> <<"_", "_", "n", "e", "w", "_", "_">>, k |-> "builtin_function_or_method", doc |-> 71, sig |-> 24],
          [n |-> <<"_", "_", "r", "e", "p", "r", "_", "_">>, k |-> "wrapper_descriptor", doc |-> 18, sig |-> 10],
          [n |-> <<"_", "_", "h", "a", "s", "h", "_", "_">>, k |-> "wrapper_descriptor", doc |-> 18, sig |-> 10],
          [n |-> <<"_", "_", "c", "a", "l", "l", "_", "_">>, k |-> "wrapper_descriptor", doc |-> 24, sig |-> 27],
          [n |-> <<"_", "_", "g", "e", "t", "a", "t", "t", "r", "i", "b", "u", "t", "e", "_", "_">>, k |-> "wrapper_descriptor", doc |-> 27, sig |-> 16],
          [n |-> <<"_", "_", "l", "t", "_", "_">>, k |-> "wrapper_descriptor", doc |-> 18, sig |-> 17],
          [n |-> <<"_", "_", "l", "e", "_", "_">>, k |-> "wrapper_descriptor", doc |-> 19, sig |-> 17],
          [n |-> <<"_", "_", "e", "q", "_", "_">>, k |-> "wrapper_descriptor", doc |-> 19, sig |-> 17],
          [n |-> <<"_", "_", "n", "e", "_", "_">>, k |-> "wrapper_descriptor", doc |-> 19, sig |-> 17],
          [n |-> <<"_", "_", "g", "t", "_", "_">>, k |-> "wrapper_descriptor", doc |-> 18, sig |-> 17],
          [n |-> <<"_", "_", "g", "e", "_", "_">>, k |-> "wrapper_descriptor", doc |-> 19, sig |-> 17],
          [n |-> <<"_", "_", "i", "t", "e", "r", "_", "_">>, k |-> "wrapper_descriptor", doc |-> 21, sig |-> 10],
          [n |-> <<"_", "_", "o", "r", "_", "_">>, k |-> "wrapper_descriptor", doc |-> 18, sig |-> 17],
          [n |-> <<"_", "_", "r", "o", "r", "_", "_">>, k |-> "wrapper_descriptor", doc |-> 18, sig |-> 17],
          [n |-> <<"_", "_", "g", "e", "t", "i", "t", "e", "m", "_", "_">>, k |-> "wrapper_descriptor", doc |-> 17, sig |-> 15],
          [n |-> <<"_", "_", "m", "r", "o", "_", "e", "n", "t", "r", "i", "e", "s", "_", "_">>, k |-> "method_descriptor", doc |-> -1, sig |-> -1],
          [n |-> <<"_", "_", "i", "n", "s", "t", "a", "n", "c", "e", "c", "h", "e", "c", "k", "_", "_">>, k |-> "method_descriptor", doc |-> -1, sig |-> -1],
          [n |-> <<"_", "_", "s", "u", "b", "c", "l", "a", "s", "s", "c", "h", "e", "c", "k", "_", "_">>, k |-> "method_descriptor", doc |-> -1, sig |-> -1],
          [n |-> <<"_", "_", "r", "e", "d", "u", "c", "e", "_", "_">>, k |-> "method_descriptor", doc |-> -1, sig |-> -1],
          [n |-> <<"_", "_", "d", "i", "r", "_", "_">>, k |-> "method_descriptor", doc |-> -1, sig |-> -1],
          [n |-> <<"_", "_", "o", "r", "i", "g", "i", "n", "_", "_">>, k |-> "member_descriptor", doc |-> -1, sig |-> -1],
          [n |-> <<"_", "_", "a", "r", "g", "s", "_", "_">>, k |-> "member_descriptor", doc |-> -1, sig |-> -1],
          [n |-> <<"_", "_", "u", "n", "p", "a", "c", "k", "e", "d", "_", "_">>, k |-> "member_descriptor", doc |-> -1, sig |-> -1],
          [n |-> <<"_", "_", "p", "a", "r", "a", "m", "e", "t", "e", "r", "s", "_", "_">>, k |-> "getset_descriptor", doc |-> 35, sig |-> -1],
          [n |-> <<"_", "_", "t", "y", "p", "i", "n", "g", "_", "u", "n", "p", "a", "c", "k", "e", "d", "_", "t", "u", "p", "l", "e", "_", "a", "r", "g", "s", "_", "_">>, k |-> "getset_descriptor", doc |-> -1, sig |-> -1],
          [n |-> <<"_", "_", "d", "o", "c", "_", "_">>, k |-> "str", doc |-> 104, sig |-> -1] >>]) @@
    ("staticmethod" :>
       [name |-> <<"s", "t", "a", "t", "i", "c", "m", "e", "t", "h", "o", "d">>,
        module |-> <<"b", "u", "i", "l", "t", "i", "n", "s">>,
        mro |-> <<"staticmethod", "object">>, doc |-> 596, sig |-> -1,
        ns |-> <<
          [n |-> <<"_", "_", "n", "e", "w", "_", "_">>, k |-> "builtin_function_or_method", doc |-> 71, sig |-> 24],
          [n |-> <<"_", "_", "r", "e", "p", "r", "_", "_">>, k |-> "wrapper_descriptor", doc |-> 18, sig |-> 10],
          [n |-> <<"_", "_", "c", "a", "l", "l", "_", "_">>, k |-> "wrapper_descriptor", doc |-> 24, sig |-> 27],
          [n |-> <<"_", "_", "g", "e", "t", "_", "_">>, k |-> "wrapper_descriptor", doc |-> 56, sig |-> 32],
          [n |-> <<"_", "_", "i", "n", "i", "t", "_", "_">>, k |-> "wrapper_descriptor", doc |-> 62, sig |-> 27],
          [n |-> <<"_", "_", "f", "u", "n", "c", "_", "_">>, k |-> "member_descriptor", doc |-> -1, sig |-> -1],
          [n |-> <<"_", "_", "w", "r", "a", "p", "p", "e", "d", "_", "_">>, k |-> "member_descriptor", doc |-> -1, sig |-> -1],
          [n |-> <<"_", "_", "i", "s", "a", "b", "s", "t", "r", "a", "c", "t", "m", "e", "t", "h", "o", "d", "_", "_">>, k |-> "getset_descriptor", doc |-> -1, sig |-> -1],
          [n |-> <<"_", "_", "d", "i", "c", "t", "_", "_">>, k |-> "getset_descriptor", doc |-> -1, sig |-> -1],
          [n |-> <<"_", "_", "d", "o", "c", "_", "_">>, k |-> "str", doc |-> 596, sig |-> -1] >>])

\* type(value).__name__
PType(v) ==
    CASE v.t \in {"text", "opaque"} -> "str"
      [] v.t = "num" -> "int"
      [] v.t = "none" -> "NoneType"
      [] v.t = "ref" -> "dict"
      [] v.t = "obj" -> "Item"
      [] OTHER -> v.t

\* T.__dict__.get(n): <<>> or the entry of n in the namespace of T itself
Own(T, n) == SelectSeq(Types[T].ns, LAMBDA e : e.n = n)

\* _PyType_Lookup(T, n): the entry of the first type of the MRO that has n
Lookup(T, n) ==
    CHOOSE result \in
      { IF owners = <<>> THEN [ok |-> FALSE]
        ELSE [ok |-> TRUE, owner |-> owners[1], e |-> Own(owners[1], n)[1]] :
          owners \in {SelectSeq(Types[T].mro, LAMBDA B : Own(B, n) # <<>>)} } : TRUE

\* a docstring or a signature: None, or a text of that many characters, n
\* in the table and more in the build
Opt(n, more) == IF n < 0 THEN NoneV ELSE TextV(n + more)

\* T.__doc__ of a type that has a docstring; TypeDoc holds the docstrings
\* of the types of the values of a context
DocText(T, build) ==
    LET TypeDoc ==
            [dict |->
                <<"d", "i", "c", "t", "(", ")", " ", "-", ">", " ", "n", "e", "w",
                  " ", "e", "m", "p", "t", "y", " ", "d", "i", "c", "t", "i", "o",
                  "n", "a", "r", "y", "\n", "d", "i", "c", "t", "(", "m", "a", "p",
                  "p", "i", "n", "g", ")", " ", "-", ">", " ", "n", "e", "w", " ",
                  "d", "i", "c", "t", "i", "o", "n", "a", "r", "y", " ", "i", "n",
                  "i", "t", "i", "a", "l", "i", "z", "e", "d", " ", "f", "r", "o",
                  "m", " ", "a", " ", "m", "a", "p", "p", "i", "n", "g", " ", "o",
                  "b", "j", "e", "c", "t", "'", "s", "\n", " ", " ", " ", " ", "(",
                  "k", "e", "y", ",", " ", "v", "a", "l", "u", "e", ")", " ", "p",
                  "a", "i", "r", "s", "\n", "d", "i", "c", "t", "(", "i", "t", "e",
                  "r", "a", "b", "l", "e", ")", " ", "-", ">", " ", "n", "e", "w",
                  " ", "d", "i", "c", "t", "i", "o", "n", "a", "r", "y", " ", "i",
                  "n", "i", "t", "i", "a", "l", "i", "z", "e", "d", " ", "a", "s",
                  " ", "i", "f", " ", "v", "i", "a", ":", "\n", " ", " ", " ", " ",
                  "d", " ", "=", " ", "{", "}", "\n", " ", " ", " ", " ", "f", "o",
                  "r", " ", "k", ",", " ", "v", " ", "i", "n", " ", "i", "t", "e",
                  "r", "a", "b", "l", "e", ":", "\n", " ", " ", " ", " ", " ", " ",
                  " ", " ", "d", "[", "k", "]", " ", "=", " ", "v", "\n", "d", "i",
                  "c", "t", "(", "*", "*", "k", "w", "a", "r", "g", "s", ")", " ",
                  "-", ">", " ", "n", "e", "w", " ", "d", "i", "c", "t", "i", "o",
                  "n", "a", "r", "y", " ", "i", "n", "i", "t", "i", "a", "l", "i",
                  "z", "e", "d", " ", "w", "i", "t", "h", " ", "t", "h", "e", " ",
                  "n", "a", "m", "e", "=", "v", "a", "l", "u", "e", " ", "p", "a",
                  "i", "r", "s", "\n", " ", " ", " ", " ", "i", "n", " ", "t", "h",
                  "e", " ", "k", "e", "y", "w", "o", "r", "d", " ", "a", "r", "g",
                  "u", "m", "e", "n", "t", " ", "l", "i", "s", "t", ".", " ", " ",
                  "F", "o", "r", " ", "e", "x", "a", "m", "p", "l", "e", ":", " ",
                  " ", "d", "i", "c", "t", "(", "o", "n", "e", "=", "1", ",", " ",
                  "t", "w", "o", "=", "2", ")">>,
             str |->
                <<"s", "t", "r", "(", "o", "b", "j", "e", "c", "t", "=", "'", "'",
                  ")", " ", "-", ">", " ", "s", "t", "r", "\n", "s", "t", "r", "(",
                  "b", "y", "t", "e", "s", "_", "o", "r", "_", "b", "u", "f", "f",
                  "e", "r", "[", ",", " ", "e", "n", "c", "o", "d", "i", "n", "g",
                  "[", ",", " ", "e", "r", "r", "o", "r", "s", "]", "]", ")", " ",
                  "-", ">", " ", "s", "t", "r", "\n", "\n", "C", "r", "e", "a", "t",
                  "e", " ", "a", " ", "n", "e", "w", " ", "s", "t", "r", "i", "n",
                  "g", " ", "o", "b", "j", "e", "c", "t", " ", "f", "r", "o", "m",
                  " ", "t", "h", "e", " ", "g", "i", "v", "e", "n", " ", "o", "b",
                  "j", "e", "c", "t", ".", " ", "I", "f", " ", "e", "n", "c", "o",
                  "d", "i", "n", "g", " ", "o", "r", "\n", "e", "r", "r", "o", "r",
                  "s", " ", "i", "s", " ", "s", "p", "e", "c", "i", "f", "i", "e",
                  "d", ",", " ", "t", "h", "e", "n", " ", "t", "h", "e", " ", "o",
                  "b", "j", "e", "c", "t", " ", "m", "u", "s", "t", " ", "e", "x",
                  "p", "o", "s", "e", " ", "a", " ", "d", "a", "t", "a", " ", "b",
                  "u", "f", "f", "e", "r", "\n", "t", "h", "a", "t", " ", "w", "i",
                  "l", "l", " ", "b", "e", " ", "d", "e", "c", "o", "d", "e", "d",
                  " ", "u", "s", "i", "n", "g", " ", "t", "h", "e", " ", "g", "i",
                  "v", "e", "n", " ", "e", "n", "c", "o", "d", "i", "n", "g", " ",
                  "a", "n", "d", " ", "e", "r", "r", "o", "r", " ", "h", "a", "n",
                  "d", "l", "e", "r", ".", "\n", "O", "t", "h", "e", "r", "w", "i",
                  "s", "e", ",", " ", "r", "e", "t", "u", "r", "n", "s", " ", "t",
                  "h", "e", " ", "r", "e", "s", "u", "l", "t", " ", "o", "f", " ",
                  "o", "b", "j", "e", "c", "t", ".", "_", "_", "s", "t", "r", "_",
                  "_", "(", ")", " ", "(", "i", "f", " ", "d", "e", "f", "i", "n",
                  "e", "d", ")", "\n", "o", "r", " ", "r", "e", "p", "r", "(", "o",
                  "b", "j", "e", "c", "t", ")", ".", "\n", "e", "n", "c", "o", "d",
                  "i", "n", "g", " ", "d", "e", "f", "a", "u", "l", "t", "s", " ",
                  "t", "o", " ", "s", "y", "s", ".", "g", "e", "t", "d", "e", "f",
                  "a", "u", "l", "t", "e", "n", "c", "o", "d", "i", "n", "g", "(",
                  ")", ".", "\n", "e", "r", "r", "o", "r", "s", " ", "d", "e", "f",
                  "a", "u", "l", "t", "s", " ", "t", "o", " ", "'", "s", "t", "r",
                  "i", "c", "t", "'", ".">>,
             list |->
                <<"B", "u", "i", "l", "t", "-", "i", "n", " ", "m", "u", "t", "a",
                  "b", "l", "e", " ", "s", "e", "q", "u", "e", "n", "c", "e", ".",
                  "\n", "\n", "I", "f", " ", "n", "o", " ", "a", "r", "g", "u", "m",
                  "e", "n", "t", " ", "i", "s", " ", "g", "i", "v", "e", "n", ",",
                  " ", "t", "h", "e", " ", "c", "o", "n", "s", "t", "r", "u", "c",
                  "t", "o", "r", " ", "c", "r", "e", "a", "t", "e", "s", " ", "a",
                  " ", "n", "e", "w", " ", "e", "m", "p", "t", "y", " ", "l", "i",
                  "s", "t", ".", "\n", "T", "h", "e", " ", "a", "r", "g", "u", "m",
                  "e", "n", "t", " ", "m", "u", "s", "t", " ", "b", "e", " ", "a",
                  "n", " ", "i", "t", "e", "r", "a", "b", "l", "e", " ", "i", "f",
                  " ", "s", "p", "e", "c", "i", "f", "i", "e", "d", ".">>,
             int |->
                <<"i", "n", "t", "(", "[", "x", "]", ")", " ", "-", ">", " ", "i",
                  "n", "t", "e", "g", "e", "r", "\n", "i", "n", "t", "(", "x", ",",
                  " ", "b", "a", "s", "e", "=", "1", "0", ")", " ", "-", ">", " ",
                  "i", "n", "t", "e", "g", "e", "r", "\n", "\n", "C", "o", "n", "v",
                  "e", "r", "t", " ", "a", " ", "n", "u", "m", "b", "e", "r", " ",
                  "o", "r", " ", "s", "t", "r", "i", "n", "g", " ", "t", "o", " ",
                  "a", "n", " ", "i", "n", "t", "e", "g", "e", "r", ",", " ", "o",
                  "r", " ", "r", "e", "t", "u", "r", "n", " ", "0", " ", "i", "f",
                  " ", "n", "o", " ", "a", "r", "g", "u", "m", "e", "n", "t", "s",
                  "\n", "a", "r", "e", " ", "g", "i", "v", "e", "n", ".", " ", " ",
                  "I", "f", " ", "x", " ", "i", "s", " ", "a", " ", "n", "u", "m",
                  "b", "e", "r", ",", " ", "r", "e", "t", "u", "r", "n", " ", "x",
                  ".", "_", "_", "i", "n", "t", "_", "_", "(", ")", ".", " ", " ",
                  "F", "o", "r", " ", "f", "l", "o", "a", "t", "i", "n", "g", " ",
                  "p", "o", "i", "n", "t", "\n", "n", "u", "m", "b", "e", "r", "s",
                  ",", " ", "t", "h", "i", "s", " ", "t", "r", "u", "n", "c", "a",
                  "t", "e", "s", " ", "t", "o", "w", "a", "r", "d", "s", " ", "z",
                  "e", "r", "o", ".", "\n", "\n", "I", "f", " ", "x", " ", "i", "s",
                  " ", "n", "o", "t", " ", "a", " ", "n", "u", "m", "b", "e", "r",
                  " ", "o", "r", " ", "i", "f", " ", "b", "a", "s", "e", " ", "i",
                  "s", " ", "g", "i", "v", "e", "n", ",", " ", "t", "h", "e", "n",
                  " ", "x", " ", "m", "u", "s", "t", " ", "b", "e", " ", "a", " ",
                  "s", "t", "r", "i", "n", "g", ",", "\n", "b", "y", "t", "e", "s",
                  ",", " ", "o", "r", " ", "b", "y", "t", "e", "a", "r", "r", "a",
                  "y", " ", "i", "n", "s", "t", "a", "n", "c", "e", " ", "r", "e",
                  "p", "r", "e", "s", "e", "n", "t", "i", "n", "g", " ", "a", "n",
                  " ", "i", "n", "t", "e", "g", "e", "r", " ", "l", "i", "t", "e",
                  "r", "a", "l", " ", "i", "n", " ", "t", "h", "e", "\n", "g", "i",
                  "v", "e", "n", " ", "b", "a", "s", "e", ".", " ", " ", "T", "h",
                  "e", " ", "l", "i", "t", "e", "r", "a", "l", " ", "c", "a", "n",
                  " ", "b", "e", " ", "p", "r", "e", "c", "e", "d", "e", "d", " ",
                  "b", "y", " ", "'", "+", "'", " ", "o", "r", " ", "'", "-", "'",
                  " ", "a", "n", "d", " ", "b", "e", " ", "s", "u", "r", "r", "o",
                  "u", "n", "d", "e", "d", "\n", "b", "y", " ", "w", "h", "i", "t",
                  "e", "s", "p", "a", "c", "e", ".", " ", " ", "T", "h", "e", " ",
                  "b", "a", "s", "e", " ", "d", "e", "f", "a", "u", "l", "t", "s",
                  " ", "t", "o", " ", "1", "0", ".", " ", " ", "V", "a", "l", "i",
                  "d", " ", "b", "a", "s", "e", "s", " ", "a", "r", "e", " ", "0",
                  " ", "a", "n", "d", " ", "2", "-", "3", "6", ".", "\n", "B", "a",
                  "s", "e", " ", "0", " ", "m", "e", "a", "n", "s", " ", "t", "o",
                  " ", "i", "n", "t", "e", "r", "p", "r", "e", "t", " ", "t", "h",
                  "e", " ", "b", "a", "s", "e", " ", "f", "r", "o", "m", " ", "t",
                  "h", "e", " ", "s", "t", "r", "i", "n", "g", " ", "a", "s", " ",
                  "a", "n", " ", "i", "n", "t", "e", "g", "e", "r", " ", "l", "i",
                  "t", "e", "r", "a", "l", ".", "\n", ">", ">", ">", " ", "i", "n",
                  "t", "(", "'", "0", "b", "1", "0", "0", "'", ",", " ", "b", "a",
                  "s", "e", "=", "0", ")", "\n", "4">>,
             float |->
                <<"C", "o", "n", "v", "e", "r", "t", " ", "a", " ", "s", "t", "r",
                  "i", "n", "g", " ", "o", "r", " ", "n", "u", "m", "b", "e", "r",
                  " ", "t", "o", " ", "a", " ", "f", "l", "o", "a", "t", "i", "n",
                  "g", " ", "p", "o", "i", "n", "t", " ", "n", "u", "m", "b", "e",
                  "r", ",", " ", "i", "f", " ", "p", "o", "s", "s", "i", "b", "l",
                  "e", ".">>,
             bool |->
                <<"b", "o", "o", "l", "(", "x", ")", " ", "-", ">", " ", "b", "o",
                  "o", "l", "\n", "\n", "R", "e", "t", "u", "r", "n", "s", " ", "T",
                  "r", "u", "e", " ", "w", "h", "e", "n", " ", "t", "h", "e", " ",
                  "a", "r", "g", "u", "m", "e", "n", "t", " ", "x", " ", "i", "s",
                  " ", "t", "r", "u", "e", ",", " ", "F", "a", "l", "s", "e", " ",
                  "o", "t", "h", "e", "r", "w", "i", "s", "e", ".", "\n", "T", "h",
                  "e", " ", "b", "u", "i", "l", "t", "i", "n", "s", " ", "T", "r",
                  "u", "e", " ", "a", "n", "d", " ", "F", "a", "l", "s", "e", " ",
                  "a", "r", "e", " ", "t", "h", "e", " ", "o", "n", "l", "y", " ",
                  "t", "w", "o", " ", "i", "n", "s", "t", "a", "n", "c", "e", "s",
                  " ", "o", "f", " ", "t", "h", "e", " ", "c", "l", "a", "s", "s",
                  " ", "b", "o", "o", "l", ".", "\n", "T", "h", "e", " ", "c", "l",
                  "a", "s", "s", " ", "b", "o", "o", "l", " ", "i", "s", " ", "a",
                  " ", "s", "u", "b", "c", "l", "a", "s", "s", " ", "o", "f", " ",
                  "t", "h", "e", " ", "c", "l", "a", "s", "s", " ", "i", "n", "t",
                  ",", " ", "a", "n", "d", " ", "c", "a", "n", "n", "o", "t", " ",
                  "b", "e", " ", "s", "u", "b", "c", "l", "a", "s", "s", "e", "d",
                  ".">>]
    IN IF T \in DOMAIN TypeDoc THEN StrV(TypeDoc[T]) ELSE Opt(Types[T].doc, IF T = "staticmethod" THEN build.staticmethod ELSE 0)

\* T.__dict__[e.n]: the object the namespace of T holds
Raw(T, e, build) ==
    CASE e.k = "builtin_function_or_method" -> BoundV(e.k, TypeV(T), e.n, T)
      [] e.k = "NoneType" -> NoneV
      [] e.k = "str" -> IF e.n = <<"_", "_", "d", "o", "c", "_", "_">> THEN DocText(T, build) ELSE TextV(e.doc)
      [] OTHER -> [t |-> e.k, owner |-> T, n |-> e.n]

\* the descriptor l = Lookup(T, n) bound to x, an instance of T
Bind(l, x, T, build) ==
    CASE l.e.k = "method_descriptor" ->
           BoundV("builtin_function_or_method", x, l.e.n, l.owner)
      [] l.e.k = "wrapper_descriptor" -> BoundV("method-wrapper", x, l.e.n, l.owner)
      [] l.e.k = "classmethod_descriptor" ->
           BoundV("builtin_function_or_method", TypeV(T), l.e.n, l.owner)
      [] l.e.k = "staticmethod" ->
           BoundV("builtin_function_or_method", NoneV, l.e.n, l.owner)
      [] OTHER -> Raw(l.owner, l.e, build)

\* the value of the getset or member descriptor n of the type owner on its
\* instance x
Data(owner, n, x, build) ==
    LET \* __qualname__ of a method or a descriptor; the text of the name of
        \* the class of an object is not computed
        Qualname ==
            LET T == IF x.t # "builtin_function_or_method"
                        \/ Own(x.owner, x.n)[1].k = "staticmethod" THEN x.owner
                     ELSE IF x.self.t = "type" THEN x.self.T
                     ELSE PType(x.self)
            IN IF T = "Item" THEN TextV(Len(Types[T].name) + 1 + Len(x.n))
               ELSE StrV(Types[T].name \o <<".">> \o x.n)
    IN
    CASE owner = "object" -> TypeV(PType(x))
      [] owner = "int" ->
           IF n \in {<<"r", "e", "a", "l">>, <<"n", "u", "m", "e", "r", "a", "t", "o", "r">>}
           THEN (IF x.t = "bool" THEN IntV(IF x.b THEN 1 ELSE 0) ELSE x)
           ELSE IF n = <<"i", "m", "a", "g">> THEN IntV(0)
           ELSE IntV(1)
      [] owner = "float" -> IF n = <<"r", "e", "a", "l">> THEN x ELSE FloatV(0, 0)
      [] owner = "Item" -> IF n = <<"_", "_", "d", "i", "c", "t", "_", "_">> THEN RefV(x.a) ELSE NoneV
      [] owner = "GenericAlias" ->
           (CASE n = <<"_", "_", "o", "r", "i", "g", "i", "n", "_", "_">> -> TypeV(x.T)
              [] n = <<"_", "_", "a", "r", "g", "s", "_", "_">> -> [t |-> "tuple", l |-> <<IntV(x.i)>>]
              [] n = <<"_", "_", "p", "a", "r", "a", "m", "e", "t", "e", "r", "s", "_", "_">> -> [t |-> "tuple", l |-> <<>>]
              [] n = <<"_", "_", "u", "n", "p", "a", "c", "k", "e", "d", "_", "_">> -> BoolV(FALSE)
              [] OTHER -> NoneV)
      [] owner = "staticmethod" ->
           (CASE n = <<"_", "_", "i", "s", "a", "b", "s", "t", "r", "a", "c", "t", "m", "e", "t", "h", "o", "d", "_", "_">> -> BoolV(FALSE)
              [] n = <<"_", "_", "d", "i", "c", "t", "_", "_">> -> [t |-> "dict"]
              [] OTHER -> BoundV("builtin_function_or_method", NoneV, x.n, x.owner))
      [] OTHER ->
           (CASE n = <<"_", "_", "s", "e", "l", "f", "_", "_">> -> x.self
              [] n = <<"_", "_", "n", "a", "m", "e", "_", "_">> -> StrV(x.n)
              [] n = <<"_", "_", "q", "u", "a", "l", "n", "a", "m", "e", "_", "_">> -> Qualname
              [] n = <<"_", "_", "o", "b", "j", "c", "l", "a", "s", "s", "_", "_">> -> TypeV(x.owner)
              [] n = <<"_", "_", "d", "o", "c", "_", "_">> ->
                   Opt(Own(x.owner, x.n)[1].doc,
                       IF x.owner = "Item" THEN build.subtype
                       ELSE IF x.owner = "str"
                               /\ x.n \in {<<"s", "p", "l", "i", "t">>,
                                           <<"r", "s", "p", "l", "i", "t">>}
                       THEN build.split
                       ELSE 0)
              [] n = <<"_", "_", "t", "e", "x", "t", "_", "s", "i", "g", "n", "a", "t", "u", "r", "e", "_", "_">> -> Opt(Own(x.owner, x.n)[1].sig, 0)
              [] OTHER -> NoneV)

\* type.__getattribute__(T, n): a data descriptor of type, then the MRO of
\* T, then the other attributes of type
TypeGetAttr(T, n, build) ==
    LET \* the value of the getset or member descriptor n of type on the
        \* type T; the texts of the name and of the module of the class of
        \* an object are not computed
        TypeData ==
            CASE n \in {<<"_", "_", "n", "a", "m", "e", "_", "_">>, <<"_", "_", "q", "u", "a", "l", "n", "a", "m", "e", "_", "_">>} ->
                   [ok |-> TRUE,
                    v |-> IF T = "Item" THEN TextV(Len(Types[T].name)) ELSE StrV(Types[T].name)]
              [] n = <<"_", "_", "m", "o", "d", "u", "l", "e", "_", "_">> ->
                   [ok |-> TRUE,
                    v |-> IF T = "Item" THEN TextV(Len(Types[T].module))
                          ELSE StrV(Types[T].module)]
              [] n = <<"_", "_", "d", "o", "c", "_", "_">> ->
                   [ok |-> TRUE,
                    v |-> IF Types[T].doc = -2 THEN [t |-> "getset_descriptor", owner |-> T, n |-> n]
                          ELSE DocText(T, build)]
              [] n = <<"_", "_", "t", "e", "x", "t", "_", "s", "i", "g", "n", "a", "t", "u", "r", "e", "_", "_">> -> [ok |-> TRUE, v |-> Opt(Types[T].sig, 0)]
              [] n = <<"_", "_", "b", "a", "s", "e", "_", "_">> ->
                   [ok |-> TRUE,
                    v |-> IF Len(Types[T].mro) > 1 THEN TypeV(Types[T].mro[2]) ELSE NoneV]
              [] n = <<"_", "_", "b", "a", "s", "e", "s", "_", "_">> ->
                   [ok |-> TRUE,
                    v |-> [t |-> "tuple",
                           l |-> IF Len(Types[T].mro) > 1 THEN <<TypeV(Types[T].mro[2])>>
                                 ELSE <<>>]]
              [] n = <<"_", "_", "m", "r", "o", "_", "_">> ->
                   [ok |-> TRUE,
                    v |-> [t |-> "tuple",
                           l |-> [k \in 1..Len(Types[T].mro) |-> TypeV(Types[T].mro[k])]]]
              [] n = <<"_", "_", "d", "i", "c", "t", "_", "_">> -> [ok |-> TRUE, v |-> [t |-> "mappingproxy", T |-> T]]
              [] n = <<"_", "_", "a", "n", "n", "o", "t", "a", "t", "i", "o", "n", "s", "_", "_">> /\ T = "Item" -> [ok |-> TRUE, v |-> [t |-> "dict"]]
              [] n \in {<<"_", "_", "a", "b", "s", "t", "r", "a", "c", "t", "m", "e", "t", "h", "o", "d", "s", "_", "_">>, <<"_", "_", "a", "n", "n", "o", "t", "a", "t", "i", "o", "n", "s", "_", "_">>} -> [ok |-> FALSE]
              [] OTHER -> [ok |-> TRUE, v |-> [t |-> "num"]]
    IN CHOOSE result \in
         { IF meta.ok /\ meta.e.k \in {"getset_descriptor", "member_descriptor"}
           THEN (IF meta.owner = "type" THEN TypeData
                 ELSE [ok |-> TRUE, v |-> Data(meta.owner, n, TypeV(T), build)])
           ELSE IF l.ok
           THEN [ok |-> TRUE,
                 v |-> IF l.e.k = "classmethod_descriptor"
                       THEN BoundV("builtin_function_or_method", TypeV(T), n, l.owner)
                       ELSE IF l.e.k = "staticmethod"
                       THEN BoundV("builtin_function_or_method", NoneV, n, l.owner)
                       ELSE Raw(l.owner, l.e, build)]
           ELSE IF meta.ok THEN [ok |-> TRUE, v |-> Bind(meta, TypeV(T), "type", build)]
           ELSE [ok |-> FALSE] :
             meta \in {Lookup("type", n)}, l \in {Lookup(T, n)} } : TRUE

\* getattr(value, component), line 579, ok when hasattr() finds the name:
\* a data descriptor of the type, then an attribute set on the object, then
\* the other attributes of the type.  An object is an instance of a class
\* that defines no attribute and has no docstring; ns holds the names its
\* namespace has gained since, each bound to an empty dict.
GetAttr(value, component, heap, ns, build) ==
    LET \* the names that a GenericAlias resolves itself; every other name
        \* is looked up on the type it stands for
        AliasAttrs ==
            {<<"_", "_", "c", "l", "a", "s", "s", "_", "_">>, <<"_", "_", "o", "r", "i", "g", "i", "n", "_", "_">>, <<"_", "_", "a", "r", "g", "s", "_", "_">>, <<"_", "_", "u", "n", "p", "a", "c", "k", "e", "d", "_", "_">>, <<"_", "_", "p", "a", "r", "a", "m", "e", "t", "e", "r", "s", "_", "_">>,
             <<"_", "_", "t", "y", "p", "i", "n", "g", "_", "u", "n", "p", "a", "c", "k", "e", "d", "_", "t", "u", "p", "l", "e", "_", "a", "r", "g", "s", "_", "_">>, <<"_", "_", "m", "r", "o", "_", "e", "n", "t", "r", "i", "e", "s", "_", "_">>, <<"_", "_", "r", "e", "d", "u", "c", "e", "_", "e", "x", "_", "_">>,
             <<"_", "_", "r", "e", "d", "u", "c", "e", "_", "_">>, <<"_", "_", "c", "o", "p", "y", "_", "_">>, <<"_", "_", "d", "e", "e", "p", "c", "o", "p", "y", "_", "_">>}
    IN CHOOSE result \in
         { IF T = "type" THEN TypeGetAttr(value.T, component, build)
           ELSE IF T = "GenericAlias" /\ component \notin AliasAttrs
           THEN TypeGetAttr(value.T, component, build)
           ELSE IF l.ok /\ l.e.k \in {"getset_descriptor", "member_descriptor"}
           THEN [ok |-> TRUE, v |-> Data(l.owner, component, value, build)]
           ELSE IF value.t = "obj" /\ component \in DOMAIN heap[value.a]
           THEN [ok |-> TRUE, v |-> heap[value.a][component]]
           ELSE IF value.t = "obj" /\ component \in ns
           THEN [ok |-> TRUE, v |-> [t |-> "dict"]]
           ELSE IF l.ok THEN [ok |-> TRUE, v |-> Bind(l, value, T, build)]
           ELSE [ok |-> FALSE] :
             T \in {PType(value)}, l \in {Lookup(PType(value), component)} } : TRUE

\* hasattr(value, component), line 577
HasAttr(value, component, heap, ns, build) == GetAttr(value, component, heap, ns, build).ok

\* value[index] of line 575: an element of a list or a tuple, a character
\* of a str, the alias of a generic type
Subscript(value, index) ==
    LET \* l[i] with the negative indexes counted from the end: <<>> when
        \* the index is out of range
        Element(l, i) ==
            IF i >= 0 /\ i < Len(l) THEN <<l[i + 1]>>
            ELSE IF i < 0 /\ -i <= Len(l) THEN <<l[Len(l) + i + 1]>>
            ELSE <<>>
    IN
    IF value.t \in {"list", "tuple"}
    THEN IF Element(value.l, index) = <<>> THEN [ok |-> FALSE]
         ELSE [ok |-> TRUE, v |-> Element(value.l, index)[1]]
    ELSE IF value.t = "str"
    THEN IF Element(value.s, index) = <<>> THEN [ok |-> FALSE]
         ELSE [ok |-> TRUE, v |-> StrV(Element(value.s, index))]
    ELSE IF value.t = "text"
    THEN IF (index >= 0 /\ index < value.n) \/ (index < 0 /\ -index <= value.n)
         THEN [ok |-> TRUE, v |-> TextV(1)]
         ELSE [ok |-> FALSE]
    ELSE IF value.t = "type"
            /\ (value.T = "type" \/ Lookup(value.T, <<"_", "_", "c", "l", "a", "s", "s", "_", "g", "e", "t", "i", "t", "e", "m", "_", "_">>).ok)
    THEN [ok |-> TRUE, v |-> [t |-> "GenericAlias", T |-> value.T, i |-> index]]
    ELSE [ok |-> FALSE]

\* one step of a dotted path: the body of the try block, lines 571-590; the
\* index first, then the attribute, then the key (of a dict or of the
\* namespace of a type; on any other value the test or the lookup raises).
\* ns is the namespace of the class of the objects before the step and, in
\* the result, after it: type.__annotations__ of a class that has no
\* annotations makes an empty dict and keeps it in the namespace
Component(value, component, heap, ns, build) ==
    IF component = <<>> THEN [ok |-> FALSE, ns |-> ns]
    ELSE IF component[1] = "[" /\ component[Len(component)] = "]"
    THEN CHOOSE indexed \in
           { IF ~IntOk(digits) THEN [ok |-> FALSE, ns |-> ns]
             ELSE CHOOSE result \in
                    { IF ~item.ok THEN [ok |-> FALSE, ns |-> ns]
                      ELSE [ok |-> TRUE, v |-> item.v, ns |-> ns] :
                        item \in {CHOOSE at \in {Subscript(value, index) :
                                                   index \in {IntOf(digits)}} : TRUE} } :
                    TRUE :
               digits \in {SubSeq(component, 2, Len(component) - 1)} } : TRUE
    ELSE IF HasAttr(value, component, heap, ns, build)
    THEN [ok |-> TRUE, v |-> GetAttr(value, component, heap, ns, build).v,
          ns |-> IF value.t = "type" /\ value.T = "Item" /\ component = <<"_", "_", "a", "n", "n", "o", "t", "a", "t", "i", "o", "n", "s", "_", "_">>
                 THEN ns \cup {component}
                 ELSE ns]
    ELSE IF value.t = "ref" /\ component \in DOMAIN heap[value.a]
    THEN [ok |-> TRUE, v |-> heap[value.a][component], ns |-> ns]
    ELSE IF value.t = "mappingproxy" /\ Own(value.T, component) # <<>>
    THEN [ok |-> TRUE, v |-> Raw(value.T, Own(value.T, component)[1], build), ns |-> ns]
    ELSE IF value.t = "mappingproxy" /\ value.T = "Item" /\ component \in ns
    THEN [ok |-> TRUE, v |-> [t |-> "dict"], ns |-> ns]
    ELSE [ok |-> FALSE, ns |-> ns]

RECURSIVE Components(_, _, _, _, _)
\* the loop over compound[1:]: the value reached, or the component that
\* failed, and the namespace of the class of the objects after it
Components(value, components, heap, ns, build) ==
    IF components = <<>> THEN [ok |-> TRUE, v |-> value, ns |-> ns]
    ELSE CHOOSE result \in
           { IF ~c.ok THEN c ELSE Components(c.v, rest, heap, c.ns, build) :
               c \in {Component(value, Head(components), heap, ns, build)},
               rest \in {Tail(components)} } : TRUE

RECURSIVE LookupVariableOutermost(_, _, _, _)
\* the frames searched in the order of the list instead of reversed(): the
\* outermost frame holding the name wins
LookupVariableOutermost(name, itemStack, heap, k) ==
    IF k = 0 THEN 0
    ELSE LET outer == LookupVariableOutermost(name, itemStack, heap, k - 1)
         IN IF outer # 0 THEN outer
            ELSE IF name \in DOMAIN heap[itemStack[k]] THEN k
            ELSE 0

RECURSIVE LookupVariable(_, _, _, _)
\* for i in reversed(itemStack): the index of the first frame holding name,
\* 0 when the loop ends without a break
LookupVariable(name, itemStack, heap, k) ==
    IF k = 0 THEN 0
    ELSE IF name \in DOMAIN heap[itemStack[k]] THEN k
    ELSE LookupVariable(name, itemStack, heap, k - 1)

RECURSIVE ApplyFormattersReversed(_, _)
\* the formatters applied last to first
ApplyFormattersReversed(formatters, value) ==
    IF formatters = <<>> THEN [ok |-> TRUE, v |-> value]
    ELSE LET r == Format(formatters[Len(formatters)], value)
         IN IF ~r.ok THEN r
            ELSE ApplyFormattersReversed(SubSeq(formatters, 1, Len(formatters) - 1), r.v)

RECURSIVE ApplyFormatters(_, _)
\* for formatter in token.GetFormatters(): value = formatter.Format(value)
ApplyFormatters(formatters, value) ==
    IF formatters = <<>> THEN [ok |-> TRUE, v |-> value]
    ELSE LET r == Format(Head(formatters), value)
         IN IF ~r.ok THEN r ELSE ApplyFormatters(Tail(formatters), r.v)

\* lines 549-562: the name looked up and the dotted path, <<>> when there
\* is none (a self-reference is looked up as '.')
VariableCompound(token) ==
    IF IsSelfReference(token)
    THEN (IF Len(token.name) > 1 THEN Split(token.name, ".") ELSE <<>>)
    ELSE IF \E k \in 1..Len(token.name) : token.name[k] = "."
    THEN Split(token.name, ".")
    ELSE <<>>
VariableName(token) ==
    IF IsSelfReference(token) THEN <<".">>
    ELSE IF VariableCompound(token) # <<>> THEN VariableCompound(token)[1]
    ELSE token.name

\* a path component that cannot be resolved ends the expansion silently, as
\* a name bound in no frame does
ExpandFoundPathMissSilent(token, itemStack, heap, ns, k, build) ==
    LET found == heap[itemStack[k]][VariableName(token)]
        result(kind, exc, text, after) ==
            [kind |-> kind, exc |-> exc, text |-> text, frame |-> k, ns |-> after]
        \* the loop of lines 569-590 over the path, read once
        walk(compound) ==
            IF compound = <<>> THEN [ok |-> TRUE, v |-> found, ns |-> ns]
            ELSE CHOOSE reached \in
                   { Components(found, rest, heap, ns, build) :
                       rest \in {Tail(compound)} } : TRUE
    IN CHOOSE expanded \in
         { IF ~walked.ok
           THEN result("skip", NoExc, <<>>, walked.ns)
           ELSE CHOOSE formatted \in
                  { IF ~f.ok THEN result("raise", f.exc, <<>>, walked.ns)
                    ELSE IF IsNone(f.v) THEN result("skip", NoExc, <<>>, walked.ns)
                    ELSE IF ~StrOk(f.v) THEN result("opaque", NoExc, <<>>, walked.ns)
                    ELSE result("write", NoExc, PyStr(f.v), walked.ns) :
                      f \in {ApplyFormatters(token.formatters, walked.v)} } : TRUE :
             walked \in {CHOOSE reached \in
                           { walk(compound) : compound \in {VariableCompound(token)} } :
                           TRUE} } : TRUE

\* lines 567-608, with the frame itemStack[k] the one that holds the name
ExpandFound(token, itemStack, heap, ns, k, build) ==
    LET found == heap[itemStack[k]][VariableName(token)]
        result(kind, exc, text, after) ==
            [kind |-> kind, exc |-> exc, text |-> text, frame |-> k, ns |-> after]
        \* the loop of lines 569-590 over the path, read once
        walk(compound) ==
            IF compound = <<>> THEN [ok |-> TRUE, v |-> found, ns |-> ns]
            ELSE CHOOSE reached \in
                   { Components(found, rest, heap, ns, build) :
                       rest \in {Tail(compound)} } : TRUE
    IN CHOOSE expanded \in
         { IF ~walked.ok
           THEN result("raise", TemplateExc("TemplateException", token.position),
                       <<>>, walked.ns)
           ELSE CHOOSE formatted \in
                  { IF ~f.ok THEN result("raise", f.exc, <<>>, walked.ns)
                    ELSE IF IsNone(f.v) THEN result("skip", NoExc, <<>>, walked.ns)
                    ELSE IF ~StrOk(f.v) THEN result("opaque", NoExc, <<>>, walked.ns)
                    ELSE result("write", NoExc, PyStr(f.v), walked.ns) :
                      f \in {ApplyFormatters(token.formatters, walked.v)} } : TRUE :
             walked \in {CHOOSE reached \in
                           { walk(compound) : compound \in {VariableCompound(token)} } :
                           TRUE} } : TRUE

\* __ExpandVariable with a name bound nowhere made an error (a KeyError) instead
\* of being ignored
ExpandVariableMissingRaises(token, itemStack, heap, ns, build) ==
    IF ~SelfReferenceOk(token)
    THEN [kind |-> "raise", exc |-> PyExc("IndexError"), text |-> <<>>, frame |-> 0,
          ns |-> ns]
    ELSE LET k == LookupVariable(VariableName(token), itemStack, heap, Len(itemStack))
         IN IF k = 0
            THEN [kind |-> "raise", exc |-> PyExc("KeyError"), text |-> <<>>, frame |-> 0,
          ns |-> ns]
            ELSE ExpandFound(token, itemStack, heap, ns, k, build)

\* __ExpandVariable(outputStream, token, itemStack): what it does
\*   kind "write": text is written; "skip": nothing is written;
\*   "raise": exc is raised; "opaque": a text the model does not compute;
\*   frame: the index of the frame the name was found in, 0 for none;
\*   ns: the namespace of the class of the objects after it
ExpandVariable(token, itemStack, heap, ns, build) ==
    IF ~SelfReferenceOk(token)
    THEN [kind |-> "raise", exc |-> PyExc("IndexError"), text |-> <<>>, frame |-> 0,
          ns |-> ns]
    ELSE LET k == LookupVariable(VariableName(token), itemStack, heap, Len(itemStack))
         IN IF k = 0
            THEN [kind |-> "skip", exc |-> NoExc, text |-> <<>>, frame |-> 0,
          ns |-> ns]
            ELSE ExpandFound(token, itemStack, heap, ns, k, build)

(***************************************************************************)
(* Template.__ExpandBlock: the part before the loop over the instances     *)
(***************************************************************************)
RECURSIVE LookupBlockFalsyAsNone(_, _, _, _, _)
\* the test "blockItems is None" written "not blockItems": an empty list, 0,
\* False and '' are treated like None
LookupBlockFalsyAsNone(blockName, negated, context, heap, k) ==
    IF k > Len(context)
    THEN [skip |-> ~negated, frame |-> 0, blockItems |-> NoneV]
    ELSE IF blockName \in DOMAIN heap[context[k]]
    THEN LET blockItems == heap[context[k]][blockName]
             falsy == \/ IsNone(blockItems)
                      \/ blockItems \in {ListV(<<>>), IntV(0), BoolV(FALSE), StrV(<<>>)}
         IN IF falsy
            THEN [skip |-> ~negated, frame |-> k, blockItems |-> NoneV]
            ELSE [skip |-> negated, frame |-> k, blockItems |-> blockItems]
    ELSE LookupBlockFalsyAsNone(blockName, negated, context, heap, k + 1)

RECURSIVE LookupBlockMissingAsNone(_, _, _, _, _)
\* the else branch of the loop left out: a name bound nowhere is treated like
\* a name bound to None by a negated block, and expanded once by a plain one
LookupBlockMissingAsNone(blockName, negated, context, heap, k) ==
    IF k > Len(context)
    THEN [skip |-> FALSE, frame |-> 0, blockItems |-> NoneV]
    ELSE IF blockName \in DOMAIN heap[context[k]]
    THEN LET blockItems == heap[context[k]][blockName]
         IN IF IsNone(blockItems)
            THEN [skip |-> ~negated, frame |-> k, blockItems |-> blockItems]
            ELSE [skip |-> negated, frame |-> k, blockItems |-> blockItems]
    ELSE LookupBlockMissingAsNone(blockName, negated, context, heap, k + 1)

RECURSIVE LookupBlock(_, _, _, _, _)
\* for items in context: ... else: ...   (lines 629-648)
\*   skip: __ExpandBlock returns; frame: the index of the frame the name was
\*   found in, 0 for none; blockItems: its value there
LookupBlock(blockName, negated, context, heap, k) ==
    IF k > Len(context)
    THEN [skip |-> ~negated, frame |-> 0, blockItems |-> NoneV]
    ELSE IF blockName \in DOMAIN heap[context[k]]
    THEN LET blockItems == heap[context[k]][blockName]
         IN IF IsNone(blockItems)
            THEN [skip |-> ~negated, frame |-> k, blockItems |-> blockItems]
            ELSE [skip |-> negated, frame |-> k, blockItems |-> blockItems]
    ELSE LookupBlock(blockName, negated, context, heap, k + 1)

IsPrimitiveType(e) == e.t \in {"str", "int", "float", "bool"}

\* the normalisation of blockItems with a falsy primitive (0, False, '') given
\* no instance
BlockInstancesFalsyEmpty(blockItems, heap) ==
    IF IsNone(blockItems)
    THEN [ok |-> TRUE, items |-> <<RefV(Len(heap) + 1)>>, heap |-> Append(heap, EmptyDict)]
    ELSE IF blockItems \in {IntV(0), BoolV(FALSE), StrV(<<>>)}
    THEN [ok |-> TRUE, items |-> <<>>, heap |-> heap]
    ELSE IF IsRef(blockItems) \/ IsPrimitiveType(blockItems)
    THEN [ok |-> TRUE, items |-> <<blockItems>>, heap |-> heap]
    ELSE IF IsList(blockItems)
    THEN [ok |-> TRUE, items |-> blockItems.l, heap |-> heap]
    ELSE [ok |-> FALSE, items |-> <<>>, heap |-> heap]

\* the normalisation of blockItems (lines 652-677): the instances, the heap
\* (a None becomes [{}], a fresh dict), or the TypeError of len()
BlockInstances(blockItems, heap) ==
    IF IsNone(blockItems)
    THEN [ok |-> TRUE, items |-> <<RefV(Len(heap) + 1)>>, heap |-> Append(heap, EmptyDict)]
    ELSE IF IsRef(blockItems) \/ IsPrimitiveType(blockItems)
    THEN [ok |-> TRUE, items |-> <<blockItems>>, heap |-> heap]
    ELSE IF IsList(blockItems)
    THEN [ok |-> TRUE, items |-> blockItems.l, heap |-> heap]
    ELSE [ok |-> FALSE, items |-> <<>>, heap |-> heap]

TxtFirst == <<"#", "F", "i", "r", "s", "t">>
TxtSeparator == <<"#", "S", "e", "p", "a", "r", "a", "t", "o", "r">>
TxtLast == <<"#", "L", "a", "s", "t">>

\* current[key] = {} : the key is bound to a fresh empty dict
SetMarker(heap, current, key) ==
    LET fresh == Len(heap) + 1
    IN [Append(heap, EmptyDict) EXCEPT ![current] = DictSet(@, key, RefV(fresh))]

\* lines 681-700: the frame of instance i and the heap after building it
InstanceFrame(heap, blockName, blockItems, i, instanceCount) ==
    LET item == blockItems[i + 1]
        current == IF IsRef(item) THEN item.a ELSE Len(heap) + 1
        h0 == IF IsRef(item)
              THEN [heap EXCEPT ![current] = DictSet(@, <<".">>, item)]
              ELSE Append(heap, DictSet(EmptyDict, <<".">>, item))
        h1 == IF i = 0 THEN SetMarker(h0, current, blockName \o TxtFirst) ELSE h0
        h2 == IF i + 1 < instanceCount
              THEN SetMarker(h1, current, blockName \o TxtSeparator) ELSE h1
        h3 == IF i + 1 = instanceCount
              THEN SetMarker(h2, current, blockName \o TxtLast) ELSE h2
    IN [current |-> current, heap |-> h3]

RECURSIVE BlockBeginText(_, _)
\* the prefixes written before an instance (lines 703-706)
BlockBeginText(formatters, isFirst) ==
    IF formatters = <<>> THEN <<>>
    ELSE OnBlockBegin(Head(formatters), isFirst)
         \o BlockBeginText(Tail(formatters), isFirst)

RECURSIVE BlockEndText(_, _)
\* the suffixes written after an instance (lines 727-730)
BlockEndText(formatters, isLast) ==
    IF formatters = <<>> THEN <<>>
    ELSE OnBlockEnd(Head(formatters), isLast) \o BlockEndText(Tail(formatters), isLast)

(***************************************************************************)
(* The include handler of the tests (MemoryTemplateRepository.Get): a new  *)
(* Template per call, None for an unknown name                             *)
(***************************************************************************)
IncludeTemplates ==
    { <<<<"i", "t", "e", "m">>, <<"{", "{", "i", "t", "e", "m", "}", "}">>>>,
      <<<<"b", "l", "o", "c", "k">>,
        <<"{", "{", "#", "b", "l", "o", "c", "k", "}", "}", "{", "{", ".", "}", "}",
          "{", "{", "/", "b", "l", "o", "c", "k", "}", "}">>>>,
      <<<<"t", "e", "x", "t">>, <<"t", "e", "x", "t">>>> }

IncludeGet(name) ==
    IF \E i \in IncludeTemplates : i[1] = name
    THEN [ok |-> TRUE, text |-> (CHOOSE i \in IncludeTemplates : i[1] = name)[2]]
    ELSE [ok |-> FALSE, text |-> <<>>]

(***************************************************************************)
(* Inputs: the templates and the contexts rendered                         *)
(***************************************************************************)
\* the number of Render calls made on the Template, one after the other
MaxRenders == 2

\* BEGIN-INPUTS
Templates ==
    { \* 'text'
      <<"t", "e", "x", "t">>,
      \* '{{x}}'
      <<"{", "{", "x", "}", "}">>,
      \* 'a{{x}}b{{y}}'
      <<"a", "{", "{", "x", "}", "}", "b", "{", "{", "y", "}", "}">>,
      \* '{{#a}}{{x}}{{/a}}'
      <<"{", "{", "#", "a", "}", "}", "{", "{", "x", "}", "}", "{", "{", "/", "a", "}", "}">>,
      \* '{{#a}}{{#b}}{{x}}{{/b}}{{/a}}'
      <<"{", "{", "#", "a", "}", "}", "{", "{", "#", "b", "}", "}", "{", "{", "x", "}", "}", "{", "{", "/", "b", "}", "}", "{", "{", "/", "a", "}", "}">>,
      \* '{{#a}}{{!b}}N{{/b}}{{/a}}'
      <<"{", "{", "#", "a", "}", "}", "{", "{", "!", "b", "}", "}", "N", "{", "{", "/", "b", "}", "}", "{", "{", "/", "a", "}", "}">>,
      \* '{{#s}}{{.}}{{/s}}'
      <<"{", "{", "#", "s", "}", "}", "{", "{", ".", "}", "}", "{", "{", "/", "s", "}", "}">>,
      \* '{{#b}}[{{x}}]{{/b}}'
      <<"{", "{", "#", "b", "}", "}", "[", "{", "{", "x", "}", "}", "]", "{", "{", "/", "b", "}", "}">>,
      \* 'p{{#b}}t{{x}}{{/b}}q'
      <<"p", "{", "{", "#", "b", "}", "}", "t", "{", "{", "x", "}", "}", "{", "{", "/", "b", "}", "}", "q">>,
      \* 'p{{!b}}X{{/b}}q'
      <<"p", "{", "{", "!", "b", "}", "}", "X", "{", "{", "/", "b", "}", "}", "q">>,
      \* '{{#b}}{{#b#First}}F{{/b#First}}{{x}}{{#b#Separator}},{{/b#Separator}}{{#b#Last}}L{{/b#Last}}{{/b}}'
      <<"{", "{", "#", "b", "}", "}", "{", "{", "#", "b", "#", "F", "i", "r", "s", "t", "}", "}", "F", "{", "{", "/", "b", "#", "F", "i", "r", "s", "t", "}", "}", "{", "{", "x", "}", "}", "{", "{", "#", "b", "#", "S", "e", "p", "a", "r", "a", "t", "o", "r", "}", "}", ",", "{", "{", "/", "b", "#", "S", "e", "p", "a", "r", "a", "t", "o", "r", "}", "}", "{", "{", "#", "b", "#", "L", "a", "s", "t", "}", "}", "L", "{", "{", "/", "b", "#", "L", "a", "s", "t", "}", "}", "{", "{", "/", "b", "}", "}">>,
      \* '{{#b:l-s=, }}{{x}}{{/b}}'
      <<"{", "{", "#", "b", ":", "l", "-", "s", "=", ",", " ", "}", "}", "{", "{", "x", "}", "}", "{", "{", "/", "b", "}", "}">>,
      \* '{{#s:separator=NEWLINE}}{{.}}{{/s}}'
      <<"{", "{", "#", "s", ":", "s", "e", "p", "a", "r", "a", "t", "o", "r", "=", "N", "E", "W", "L", "I", "N", "E", "}", "}", "{", "{", ".", "}", "}", "{", "{", "/", "s", "}", "}">>,
      \* '{{#b:list-separator=;:indent=1}}{{x}}{{_NEWLINE}}{{/b}}'
      <<"{", "{", "#", "b", ":", "l", "i", "s", "t", "-", "s", "e", "p", "a", "r", "a", "t", "o", "r", "=", ";", ":", "i", "n", "d", "e", "n", "t", "=", "1", "}", "}", "{", "{", "x", "}", "}", "{", "{", "_", "N", "E", "W", "L", "I", "N", "E", "}", "}", "{", "{", "/", "b", "}", "}">>,
      \* '{{x:width=-4:prefix=a}}'
      <<"{", "{", "x", ":", "w", "i", "d", "t", "h", "=", "-", "4", ":", "p", "r", "e", "f", "i", "x", "=", "a", "}", "}">>,
      \* '{{x:prefix=a:width=-4}}'
      <<"{", "{", "x", ":", "p", "r", "e", "f", "i", "x", "=", "a", ":", "w", "i", "d", "t", "h", "=", "-", "4", "}", "}">>,
      \* '{{x:width=3:suffix=a}}'
      <<"{", "{", "x", ":", "w", "i", "d", "t", "h", "=", "3", ":", "s", "u", "f", "f", "i", "x", "=", "a", "}", "}">>,
      \* '{{x:suffix=a:width=3}}'
      <<"{", "{", "x", ":", "s", "u", "f", "f", "i", "x", "=", "a", ":", "w", "i", "d", "t", "h", "=", "3", "}", "}">>,
      \* '{{x:uc:prefix=a:w=3}}'
      <<"{", "{", "x", ":", "u", "c", ":", "p", "r", "e", "f", "i", "x", "=", "a", ":", "w", "=", "3", "}", "}">>,
      \* '{{x:default=d}}'
      <<"{", "{", "x", ":", "d", "e", "f", "a", "u", "l", "t", "=", "d", "}", "}">>,
      \* '{{_SPACE}}{{_LEFT}}'
      <<"{", "{", "_", "S", "P", "A", "C", "E", "}", "}", "{", "{", "_", "L", "E", "F", "T", "}", "}">>,
      \* '{{>item}}{{>block}}{{>text}}'
      <<"{", "{", ">", "i", "t", "e", "m", "}", "}", "{", "{", ">", "b", "l", "o", "c", "k", "}", "}", "{", "{", ">", "t", "e", "x", "t", "}", "}">>,
      \* '{{>none}}'
      <<"{", "{", ">", "n", "o", "n", "e", "}", "}">>,
      \* '\n{{x'
      <<"\n", "{", "{", "x">>,
      \* '{{x}'
      <<"{", "{", "x", "}">>,
      \* 'a{{/b}}'
      <<"a", "{", "{", "/", "b", "}", "}">>,
      \* '{{#b}}{{x}}'
      <<"{", "{", "#", "b", "}", "}", "{", "{", "x", "}", "}">>,
      \* '{{x:foo}}'
      <<"{", "{", "x", ":", "f", "o", "o", "}", "}">>,
      \* '{{x:indent=1}}'
      <<"{", "{", "x", ":", "i", "n", "d", "e", "n", "t", "=", "1", "}", "}">>,
      \* '{{#b:uc}}{{x}}{{/b}}'
      <<"{", "{", "#", "b", ":", "u", "c", "}", "}", "{", "{", "x", "}", "}", "{", "{", "/", "b", "}", "}">>,
      \* '{{!b:indent=1}}X{{/b}}'
      <<"{", "{", "!", "b", ":", "i", "n", "d", "e", "n", "t", "=", "1", "}", "}", "X", "{", "{", "/", "b", "}", "}">>,
      \* 'a{{.:uc}}'
      <<"a", "{", "{", ".", ":", "u", "c", "}", "}">>,
      \* '{{#a}}{{.x:uc}}{{/a}}'
      <<"{", "{", "#", "a", "}", "}", "{", "{", ".", "x", ":", "u", "c", "}", "}", "{", "{", "/", "a", "}", "}">>,
      \* '{{/b:uc}}'
      <<"{", "{", "/", "b", ":", "u", "c", "}", "}">>,
      \* '{{_SPACE:uc}}'
      <<"{", "{", "_", "S", "P", "A", "C", "E", ":", "u", "c", "}", "}">>,
      \* '{{>item:uc}}'
      <<"{", "{", ">", "i", "t", "e", "m", ":", "u", "c", "}", "}">>,
      \* '{{x:width}}'
      <<"{", "{", "x", ":", "w", "i", "d", "t", "h", "}", "}">>,
      \* '{{x:prefix=}}'
      <<"{", "{", "x", ":", "p", "r", "e", "f", "i", "x", "=", "}", "}">>,
      \* '{{x:uc=1}}'
      <<"{", "{", "x", ":", "u", "c", "=", "1", "}", "}">>,
      \* '{{x:width=a}}'
      <<"{", "{", "x", ":", "w", "i", "d", "t", "h", "=", "a", "}", "}">>,
      \* '{{x:prefix=a=b}}'
      <<"{", "{", "x", ":", "p", "r", "e", "f", "i", "x", "=", "a", "=", "b", "}", "}">>,
      \* '{{#b:indent}}{{x}}{{/b}}'
      <<"{", "{", "#", "b", ":", "i", "n", "d", "e", "n", "t", "}", "}", "{", "{", "x", "}", "}", "{", "{", "/", "b", "}", "}">>,
      \* '{{'
      <<"{", "{">>,
      \* 'a{{'
      <<"a", "{", "{">>,
      \* '{{#b}}{{x}a{{/b}}'
      <<"{", "{", "#", "b", "}", "}", "{", "{", "x", "}", "a", "{", "{", "/", "b", "}", "}">>,
      \* '{{#b}}{{x'
      <<"{", "{", "#", "b", "}", "}", "{", "{", "x">>,
      \* '{{#b}}{{'
      <<"{", "{", "#", "b", "}", "}", "{", "{">>,
      \* '{{x}a}}'
      <<"{", "{", "x", "}", "a", "}", "}">>,
      \* '{{#b}}{{x:width}}{{/b}}'
      <<"{", "{", "#", "b", "}", "}", "{", "{", "x", ":", "w", "i", "d", "t", "h", "}", "}", "{", "{", "/", "b", "}", "}">>,
      \* '\n{{#b}}{{b.y}}{{/b}}'
      <<"\n", "{", "{", "#", "b", "}", "}", "{", "{", "b", ".", "y", "}", "}", "{", "{", "/", "b", "}", "}">>,
      \* '{{#b}}\n{{b.y}}{{/b}}'
      <<"{", "{", "#", "b", "}", "}", "\n", "{", "{", "b", ".", "y", "}", "}", "{", "{", "/", "b", "}", "}">>,
      \* '{{#b}}{{/b}}'
      <<"{", "{", "#", "b", "}", "}", "{", "{", "/", "b", "}", "}">>,
      \* '{{!b}}{{/b}}'
      <<"{", "{", "!", "b", "}", "}", "{", "{", "/", "b", "}", "}">>,
      \* '{{#b}}{{#b}}{{x}}{{/b}}{{/b}}'
      <<"{", "{", "#", "b", "}", "}", "{", "{", "#", "b", "}", "}", "{", "{", "x", "}", "}", "{", "{", "/", "b", "}", "}", "{", "{", "/", "b", "}", "}">>,
      \* '{{#b:separator=NEWLINE:indent=1}}{{x}}{{/b}}'
      <<"{", "{", "#", "b", ":", "s", "e", "p", "a", "r", "a", "t", "o", "r", "=", "N", "E", "W", "L", "I", "N", "E", ":", "i", "n", "d", "e", "n", "t", "=", "1", "}", "}", "{", "{", "x", "}", "}", "{", "{", "/", "b", "}", "}">>,
      \* '{{#.x}}a{{/.x}}'
      <<"{", "{", "#", ".", "x", "}", "}", "a", "{", "{", "/", ".", "x", "}", "}">>,
      \* '{{#a}}{{#.x}}{{/a}}'
      <<"{", "{", "#", "a", "}", "}", "{", "{", "#", ".", "x", "}", "}", "{", "{", "/", "a", "}", "}">>,
      \* '{{#a}}{{#.x}}b{{/.x}}{{/a}}'
      <<"{", "{", "#", "a", "}", "}", "{", "{", "#", ".", "x", "}", "}", "b", "{", "{", "/", ".", "x", "}", "}", "{", "{", "/", "a", "}", "}">>,
      \* '{{#b}}{{/c}}'
      <<"{", "{", "#", "b", "}", "}", "{", "{", "/", "c", "}", "}">>,
      \* '{{#b}}{{#c}}{{x}}{{/c}}'
      <<"{", "{", "#", "b", "}", "}", "{", "{", "#", "c", "}", "}", "{", "{", "x", "}", "}", "{", "{", "/", "c", "}", "}">>,
      \* '{{#a}}{{#b}}{{/a}}{{/b}}'
      <<"{", "{", "#", "a", "}", "}", "{", "{", "#", "b", "}", "}", "{", "{", "/", "a", "}", "}", "{", "{", "/", "b", "}", "}">>,
      \* '{{#b}}{{x}}{{/b}}{{/b}}'
      <<"{", "{", "#", "b", "}", "}", "{", "{", "x", "}", "}", "{", "{", "/", "b", "}", "}", "{", "{", "/", "b", "}", "}">>,
      \* '{{a.x}}'
      <<"{", "{", "a", ".", "x", "}", "}">>,
      \* '{{a.b.x}}'
      <<"{", "{", "a", ".", "b", ".", "x", "}", "}">>,
      \* '{{#a}}{{.x}}{{/a}}'
      <<"{", "{", "#", "a", "}", "}", "{", "{", ".", "x", "}", "}", "{", "{", "/", "a", "}", "}">>,
      \* '{{#a}}{{c.y}}{{/a}}'
      <<"{", "{", "#", "a", "}", "}", "{", "{", "c", ".", "y", "}", "}", "{", "{", "/", "a", "}", "}">>,
      \* '{{s.[2]}}'
      <<"{", "{", "s", ".", "[", "2", "]", "}", "}">>,
      \* '{{#b}}{{>item}}{{/b}}'
      <<"{", "{", "#", "b", "}", "}", "{", "{", ">", "i", "t", "e", "m", "}", "}", "{", "{", "/", "b", "}", "}">>,
      \* '{{#b}}{{>block}}{{/b}}'
      <<"{", "{", "#", "b", "}", "}", "{", "{", ">", "b", "l", "o", "c", "k", "}", "}", "{", "{", "/", "b", "}", "}">>,
      \* 'p{{>text}}q'
      <<"p", "{", "{", ">", "t", "e", "x", "t", "}", "}", "q">>,
      \* '{{x.real}}'
      <<"{", "{", "x", ".", "r", "e", "a", "l", "}", "}">>,
      \* '{{s.imag}}'
      <<"{", "{", "s", ".", "i", "m", "a", "g", "}", "}">>,
      \* '{{b.__doc__}}'
      <<"{", "{", "b", ".", "_", "_", "d", "o", "c", "_", "_", "}", "}">>,
      \* '{{a.keys}}'
      <<"{", "{", "a", ".", "k", "e", "y", "s", "}", "}">>,
      \* '{{x:uc:w= 1_0}}'
      <<"{", "{", "x", ":", "u", "c", ":", "w", "=", " ", "1", "_", "0", "}", "}">>,
      \* '{{a.keys.foo}}'
      <<"{", "{", "a", ".", "k", "e", "y", "s", ".", "f", "o", "o", "}", "}">>,
      \* '{{a.keys.__name__}}'
      <<"{", "{", "a", ".", "k", "e", "y", "s", ".", "_", "_", "n", "a", "m", "e", "_", "_", "}", "}">>,
      \* '{{a.keys.foo:hex}}'
      <<"{", "{", "a", ".", "k", "e", "y", "s", ".", "f", "o", "o", ":", "h", "e", "x", "}", "}">>,
      \* '{{x.upper.__self__}}'
      <<"{", "{", "x", ".", "u", "p", "p", "e", "r", ".", "_", "_", "s", "e", "l", "f", "_", "_", "}", "}">>,
      \* '{{a.__class__.__name__}}'
      <<"{", "{", "a", ".", "_", "_", "c", "l", "a", "s", "s", "_", "_", ".", "_", "_", "n", "a", "m", "e", "_", "_", "}", "}">>,
      \* '{{a.__module__.foo}}'
      <<"{", "{", "a", ".", "_", "_", "m", "o", "d", "u", "l", "e", "_", "_", ".", "f", "o", "o", "}", "}">>,
      \* '{{a.keys.__doc__.[0]}}'
      <<"{", "{", "a", ".", "k", "e", "y", "s", ".", "_", "_", "d", "o", "c", "_", "_", ".", "[", "0", "]", "}", "}">>,
      \* '{{s.__class__.__mro__.[1].__name__}}'
      <<"{", "{", "s", ".", "_", "_", "c", "l", "a", "s", "s", "_", "_", ".", "_", "_", "m", "r", "o", "_", "_", ".", "[", "1", "]", ".", "_", "_", "n", "a", "m", "e", "_", "_", "}", "}">>,
      \* '{{a.__class__.__dict__.keys.__objclass__.foo}}'
      <<"{", "{", "a", ".", "_", "_", "c", "l", "a", "s", "s", "_", "_", ".", "_", "_", "d", "i", "c", "t", "_", "_", ".", "k", "e", "y", "s", ".", "_", "_", "o", "b", "j", "c", "l", "a", "s", "s", "_", "_", ".", "f", "o", "o", "}", "}">>,
      \* '{{s.__len__.__self__.[0]:w=2:indent=1}}'
      <<"{", "{", "s", ".", "_", "_", "l", "e", "n", "_", "_", ".", "_", "_", "s", "e", "l", "f", "_", "_", ".", "[", "0", "]", ":", "w", "=", "2", ":", "i", "n", "d", "e", "n", "t", "=", "1", "}", "}">>,
      \* '{{a.__class__.__annotations__.__doc__.[0]}}{{a.__annotations__.__doc__.[1]}}'
      <<"{", "{", "a", ".", "_", "_", "c", "l", "a", "s", "s", "_", "_", ".", "_", "_", "a", "n", "n", "o", "t", "a", "t", "i", "o", "n", "s", "_", "_", ".", "_", "_", "d", "o", "c", "_", "_", ".", "[", "0", "]", "}", "}", "{", "{", "a", ".", "_", "_", "a", "n", "n", "o", "t", "a", "t", "i", "o", "n", "s", "_", "_", ".", "_", "_", "d", "o", "c", "_", "_", ".", "[", "1", "]", "}", "}">>,
      \* '{{a.__annotations__.__doc__.[0]}}{{a.__class__.__annotations__}}'
      <<"{", "{", "a", ".", "_", "_", "a", "n", "n", "o", "t", "a", "t", "i", "o", "n", "s", "_", "_", ".", "_", "_", "d", "o", "c", "_", "_", ".", "[", "0", "]", "}", "}", "{", "{", "a", ".", "_", "_", "c", "l", "a", "s", "s", "_", "_", ".", "_", "_", "a", "n", "n", "o", "t", "a", "t", "i", "o", "n", "s", "_", "_", "}", "}">>,
      \* '{{a.__class__.__annotations__.foo}}{{a.__annotations__.__doc__.[0]}}'
      <<"{", "{", "a", ".", "_", "_", "c", "l", "a", "s", "s", "_", "_", ".", "_", "_", "a", "n", "n", "o", "t", "a", "t", "i", "o", "n", "s", "_", "_", ".", "f", "o", "o", "}", "}", "{", "{", "a", ".", "_", "_", "a", "n", "n", "o", "t", "a", "t", "i", "o", "n", "s", "_", "_", ".", "_", "_", "d", "o", "c", "_", "_", ".", "[", "0", "]", "}", "}">>,
      \* '{{a.__class__.__annotations__.__hash__}}{{a.__class__.__dict__.__annotations__.__hash__}}x'
      <<"{", "{", "a", ".", "_", "_", "c", "l", "a", "s", "s", "_", "_", ".", "_", "_", "a", "n", "n", "o", "t", "a", "t", "i", "o", "n", "s", "_", "_", ".", "_", "_", "h", "a", "s", "h", "_", "_", "}", "}", "{", "{", "a", ".", "_", "_", "c", "l", "a", "s", "s", "_", "_", ".", "_", "_", "d", "i", "c", "t", "_", "_", ".", "_", "_", "a", "n", "n", "o", "t", "a", "t", "i", "o", "n", "s", "_", "_", ".", "_", "_", "h", "a", "s", "h", "_", "_", "}", "}", "x">>,
      \* '{{a.__class__.__dict__.__weakref__.__doc__.[40]}}'
      <<"{", "{", "a", ".", "_", "_", "c", "l", "a", "s", "s", "_", "_", ".", "_", "_", "d", "i", "c", "t", "_", "_", ".", "_", "_", "w", "e", "a", "k", "r", "e", "f", "_", "_", ".", "_", "_", "d", "o", "c", "_", "_", ".", "[", "4", "0", "]", "}", "}">>,
      \* '{{x.split.__doc__.[592]}}'
      <<"{", "{", "x", ".", "s", "p", "l", "i", "t", ".", "_", "_", "d", "o", "c", "_", "_", ".", "[", "5", "9", "2", "]", "}", "}">> }

\* a context is the heap that holds it; its root dict is at address 1
Contexts ==
    { \* {}
      <<EmptyDict>>,
      \* {'x': 'b'}
      <<(<<"x">> :> StrV(<<"b">>))>>,
      \* {'x': 42}
      <<(<<"x">> :> IntV(42))>>,
      \* {'x': None}
      <<(<<"x">> :> NoneV)>>,
      \* {'x': 'o', 'a': {'x': 'i'}}
      <<(<<"x">> :> StrV(<<"o">>)) @@ (<<"a">> :> RefV(2)),
         (<<"x">> :> StrV(<<"i">>))>>,
      \* {'x': 'o', 'a': {'y': 'i'}}
      <<(<<"x">> :> StrV(<<"o">>)) @@ (<<"a">> :> RefV(2)),
         (<<"y">> :> StrV(<<"i">>))>>,
      \* {'x': 'o', 'a': {'x': 'i', 'b': {'x': 'k'}}}
      <<(<<"x">> :> StrV(<<"o">>)) @@ (<<"a">> :> RefV(2)),
         (<<"x">> :> StrV(<<"i">>)) @@ (<<"b">> :> RefV(3)),
         (<<"x">> :> StrV(<<"k">>))>>,
      \* {'x': 'v', 'b': None}
      <<(<<"x">> :> StrV(<<"v">>)) @@ (<<"b">> :> NoneV)>>,
      \* {'b': []}
      <<(<<"b">> :> ListV(<<>>))>>,
      \* {'b': [{'x': '0'}, {'x': '1'}]}
      <<(<<"b">> :> ListV(<<RefV(2), RefV(3)>>)),
         (<<"x">> :> StrV(<<"0">>)),
         (<<"x">> :> StrV(<<"1">>))>>,
      \* {'b': [{'x': '0'}, {'x': '1'}, {'x': '2'}]}
      <<(<<"b">> :> ListV(<<RefV(2), RefV(3), RefV(4)>>)),
         (<<"x">> :> StrV(<<"0">>)),
         (<<"x">> :> StrV(<<"1">>)),
         (<<"x">> :> StrV(<<"2">>))>>,
      \* {'b': {'x': 'd'}}
      <<(<<"b">> :> RefV(2)),
         (<<"x">> :> StrV(<<"d">>))>>,
      \* {'b': [{'x': 1}, {'x': 1}]}
      <<(<<"b">> :> ListV(<<RefV(2), RefV(2)>>)),
         (<<"x">> :> IntV(1))>>,
      \* {'b': 0, 's': 0}
      <<(<<"b">> :> IntV(0)) @@ (<<"s">> :> IntV(0))>>,
      \* {'b': '', 's': ''}
      <<(<<"b">> :> StrV(<<>>)) @@ (<<"s">> :> StrV(<<>>))>>,
      \* {'b': False, 's': True}
      <<(<<"b">> :> BoolV(FALSE)) @@ (<<"s">> :> BoolV(TRUE))>>,
      \* {'b': 'v', 's': 1.5}
      <<(<<"b">> :> StrV(<<"v">>)) @@ (<<"s">> :> FloatV(1, 5))>>,
      \* {'s': [1, 2, 3]}
      <<(<<"s">> :> ListV(<<IntV(1), IntV(2), IntV(3)>>))>>,
      \* {'s': ['p', -7]}
      <<(<<"s">> :> ListV(<<StrV(<<"p">>), IntV(-7)>>))>>,
      \* {'a': {'b': [{'x': 'i'}]}, 'b': [{'x': 'o'}, {'x': 'p'}]}
      <<(<<"a">> :> RefV(2)) @@ (<<"b">> :> ListV(<<RefV(4), RefV(5)>>)),
         (<<"b">> :> ListV(<<RefV(3)>>)),
         (<<"x">> :> StrV(<<"i">>)),
         (<<"x">> :> StrV(<<"o">>)),
         (<<"x">> :> StrV(<<"p">>))>>,
      \* {'a': {'b': None}, 'b': [{'x': 'o'}]}
      <<(<<"a">> :> RefV(2)) @@ (<<"b">> :> ListV(<<RefV(3)>>)),
         (<<"b">> :> NoneV),
         (<<"x">> :> StrV(<<"o">>))>>,
      \* {'a': {'b': [{'x': 'i'}]}, 'b': None}
      <<(<<"a">> :> RefV(2)) @@ (<<"b">> :> NoneV),
         (<<"b">> :> ListV(<<RefV(3)>>)),
         (<<"x">> :> StrV(<<"i">>))>>,
      \* {'item': 'theitem', 'block': 'theitem'}
      <<(<<"i", "t", "e", "m">> :> StrV(<<"t", "h", "e", "i", "t", "e", "m">>)) @@ (<<"b", "l", "o", "c", "k">> :> StrV(<<"t", "h", "e", "i", "t", "e", "m">>))>>,
      \* {'c': {'y': 'o'}, 'a': {'c': {}}}
      <<(<<"c">> :> RefV(2)) @@ (<<"a">> :> RefV(3)),
         (<<"y">> :> StrV(<<"o">>)),
         (<<"c">> :> RefV(4)),
         EmptyDict>>,
      \* {'a': <__main__.Item object>}
      <<(<<"a">> :> ObjV(2)),
         (<<"x">> :> StrV(<<"f">>))>>,
      \* {'b': [{'item': 1, 'block': [1, 2]}, {'item': 'w', 'block': 3}]}
      <<(<<"b">> :> ListV(<<RefV(2), RefV(3)>>)),
         (<<"i", "t", "e", "m">> :> IntV(1)) @@ (<<"b", "l", "o", "c", "k">> :> ListV(<<IntV(1), IntV(2)>>)),
         (<<"i", "t", "e", "m">> :> StrV(<<"w">>)) @@ (<<"b", "l", "o", "c", "k">> :> IntV(3))>>,
      \* {'x': 'straße', 'a': {'keys': 'k'}}
      <<(<<"x">> :> StrV(<<"s", "t", "r", "a", "ß", "e">>)) @@ (<<"a">> :> RefV(2)),
         (<<"k", "e", "y", "s">> :> StrV(<<"k">>))>> }
\* END-INPUTS

(***************************************************************************)
(* State                                                                   *)
(***************************************************************************)
\* One caller: its Render calls follow one another and no other thread runs
\* between two calls of a method of the stream, so a step is one iteration of
\* a loop of the renderer.  Two callers at the same time take the steps of
\* SpecConcurrent, one per call of a method of the stream.
Threads == {1}

VARIABLES
    input,     \* the template text and the context as they were given
    heap,      \* the dicts and objects, by address
    namespace, \* the names added to the namespace of the class of the objects
    streams,   \* the TextStream objects, by id; 1 is Template.__input
    th         \* per thread: the Render call in progress and its history

vars == <<input, heap, streams, namespace, th>>

NoToken == [prefix |-> NoPrefix, name |-> <<>>, start |-> 0, end |-> 0,
            position |-> Pos(0, 0), formatters |-> <<>>]

NoBlock == [k |-> "none"]

\* what the last step did (an observation, read by no step): the operation,
\* its token, the text it wrote, the length of the output before it (at), the
\* index of the frame a lookup found the name in (frame), the block left,
\* and for a step that raised the stream __Render was reading (s)
Event(op, tok, text) ==
    [op |-> op, tok |-> tok, text |-> text, at |-> 0, frame |-> 0, block |-> NoBlock,
     s |-> 0]

\* The call stack holds two kinds of frames.  A call of __Render on stream s
\* (handler: the Template has an include handler), and a call of
\* __ExpandBlock in its loop: the block's name, the value its name resolved
\* to, its instances, the instance count n, the loop index i, the formatters
\* and the body text; base and mark are output lengths at the start of the
\* block and of the instance, parts what each instance wrote (observations).
RenderFrame(s, handler) == [k |-> "render", s |-> s, handler |-> handler]

\* the text of a template with the text of each template the include handler
\* knows written in place of its include token
\* text with every occurrence of old replaced by new (occurrences of old do not overlap)
ReplaceInclude(text, old, new) ==
    CHOOSE result \in
      { Flatten([i \in 1..Len(text) |->
                   IF i \in at THEN new
                   ELSE IF \E k \in at : k < i /\ i < k + Len(old) THEN <<>>
                   ELSE <<text[i]>>], 1, Len(text)) :
        at \in {{i \in 1..Len(text) :
                   /\ i + Len(old) - 1 <= Len(text)
                   /\ SubSeq(text, i, i + Len(old) - 1) = old}} } : TRUE

\* text with every {{>name}} replaced by the text the repository holds for name
InlineInclude(text, name) ==
    IF IncludeGet(name).ok
    THEN ReplaceInclude(text, <<"{", "{", ">">> \o name \o <<"}", "}">>, IncludeGet(name).text)
    ELSE text

InlinedTemplate(template) ==
    InlineInclude(InlineInclude(InlineInclude(template, <<"i","t","e","m">>),
                                <<"b","l","o","c","k">>), <<"t","e","x","t">>)

RECURSIVE CopyValue(_, _)
\* a value with every address in it moved by n
CopyValue(v, n) ==
    IF v.t = "ref" THEN RefV(v.a + n)
    ELSE IF v.t = "obj" THEN ObjV(v.a + n)
    ELSE IF v.t = "list" THEN ListV([k \in 1..Len(v.l) |-> CopyValue(v.l[k], n)])
    ELSE v

\* copy.deepcopy(context): equal dicts at the addresses after the originals
ContextCopy(context) ==
    [a \in 1..Len(context) |->
       IF DOMAIN context[a] = {} THEN EmptyDict
       ELSE [k \in DOMAIN context[a] |-> CopyValue(context[a][k], Len(context))]]

\* Template(template, handler) is constructed, and beside it a second Template
\* from the inlined text; the context is given, and a deep copy of it for
\* the second Template.  log and inlined are what the calls of Render on the
\* one and on the other returned or raised.
Init ==
    /\ \E template \in Templates, context \in Contexts, build \in Builds :
          \* the builds differ in docstrings only: a template that reads none
          \* is rendered on one build
          /\ \/ \E k \in 1..(Len(template) - 6) :
                   SubSeq(template, k, k + 6) = <<"_", "_", "d", "o", "c", "_", "_">>
             \/ build = [subtype |-> 13, split |-> 0, staticmethod |-> 1]
          /\ input = [template |-> template, context |-> context, build |-> build]
          /\ heap = context \o ContextCopy(context)
          /\ streams = <<TextStream(template), TextStream(InlinedTemplate(template))>>
    /\ namespace = {}
    /\ th = [t \in Threads |->
               [status |-> "idle", stack |-> <<>>, context |-> <<>>, out |-> <<>>,
                exc |-> NoExc, log |-> <<>>, inlined |-> <<>>, renders |-> 0,
                root |-> 1, tpl |-> 1,
                ev |-> Event("none", NoToken, <<>>)]]

Top(t) == th[t].stack[Len(th[t].stack)]
Below(t) == th[t].stack[Len(th[t].stack) - 1]
Pop(stack) == SubSeq(stack, 1, Len(stack) - 1)
Write(out, text) == [out EXCEPT ![Len(out)] = @ \o text]
\* the length of the output stream written to
OutLen(t) == Len(th[t].out[Len(th[t].out)])

InRender(t) ==
    /\ th[t].status = "running"
    /\ th[t].stack # <<>>
    /\ Top(t).k = "render"
InBlock(t) ==
    /\ th[t].status = "running"
    /\ th[t].stack # <<>>
    /\ Top(t).k = "block"
CurStream(t) == streams[Top(t).s]

\* the test of line 799
AtToken(t) ==
    /\ InRender(t)
    /\ ~IsAtEnd(CurStream(t))
    /\ Get(CurStream(t)).c = "{"
    /\ Peek(Get(CurStream(t)).st) = "{"
\* lines 800-801
Read(t) == ReadToken(Unget(Get(CurStream(t)).st))

\* the token is dispatched to __ExpandVariable (line 803); an empty name
\* that is no value raises the IndexError of IsSelfReference there
ToVariable(tok) == IsValue(tok) \/ ~SelfReferenceOk(tok) \/ IsSelfReference(tok)
ToBlock(tok) == ~ToVariable(tok) /\ (IsBlockStart(tok) \/ IsNegatedBlockStart(tok))

\* an exception leaves Render: nothing is caught, the call stack unwinds
Raised(r, exc, ev) ==
    [r EXCEPT !.status = "raised", !.exc = exc, !.stack = <<>>, !.context = <<>>,
              !.out = <<>>, !.ev = [ev EXCEPT !.s = r.stack[Len(r.stack)].s],
              !.log = IF r.tpl = 1
                      THEN Append(@, [ok |-> FALSE, text |-> <<>>, exc |-> exc])
                      ELSE @,
              !.inlined = IF r.tpl = 2
                          THEN Append(@, [ok |-> FALSE, text |-> <<>>, exc |-> exc])
                          ELSE @]

\* Render(context), lines 828-831: the list [context], the output, the call
\* of __Render on self.__input
RenderCall(t) ==
    /\ th[t].status \in {"idle", "returned", "raised"}
    /\ th[t].renders < MaxRenders
    /\ th' = [th EXCEPT ![t] =
                [@ EXCEPT !.status = "running", !.renders = @ + 1,
                          !.root = 1, !.tpl = 1,
                          !.context = <<1>>, !.out = << <<>> >>,
                          !.stack = <<RenderFrame(1, TRUE)>>, !.exc = NoExc,
                          !.ev = Event("Render", NoToken, <<>>)]]
    /\ UNCHANGED <<input, heap, streams, namespace>>

\* Render(copy) on the Template of the inlined text, once the calls on the
\* first Template are over (only when an include token was inlined)
RenderInlinedCall(t) ==
    /\ th[t].status \in {"returned", "raised"}
    /\ th[t].renders = MaxRenders
    /\ th[t].inlined = <<>>
    /\ streams[2].text # streams[1].text
    /\ th' = [th EXCEPT ![t] =
                [@ EXCEPT !.status = "running",
                          !.root = Len(input.context) + 1, !.tpl = 2,
                          !.context = <<Len(input.context) + 1>>, !.out = << <<>> >>,
                          !.stack = <<RenderFrame(2, TRUE)>>, !.exc = NoExc,
                          !.ev = Event("Render", NoToken, <<>>)]]
    /\ UNCHANGED <<input, heap, streams, namespace>>

\* a renderer that meets a character that starts no token and neither
\* consumes nor writes it
PassThroughStuck(t) ==
    /\ InRender(t)
    /\ ~IsAtEnd(CurStream(t))
    /\ ~AtToken(t)
    /\ th' = [th EXCEPT ![t] = [@ EXCEPT !.ev = Event("char", NoToken, <<>>)]]
    /\ UNCHANGED <<input, heap, streams, namespace>>

\* __Render, lines 819-821: a character that starts no token is written
PassThrough(t) ==
    /\ InRender(t)
    /\ ~IsAtEnd(CurStream(t))
    /\ ~AtToken(t)
    /\ LET g == Get(CurStream(t))
       IN /\ streams' = [streams EXCEPT ![Top(t).s] = g.st]
          /\ th' = [th EXCEPT ![t] =
                      [@ EXCEPT !.out = Write(@, <<g.c>>),
                                !.ev = Event("char", NoToken, <<g.c>>)]]
    /\ UNCHANGED <<input, heap, namespace>>

\* __ReadToken raises (lines 738-755, and Token.__init__)
TokenError(t) ==
    /\ AtToken(t)
    /\ \E rd \in {Read(t)} :
          /\ ~rd.ok
          /\ streams' = [streams EXCEPT ![Top(t).s] = rd.st]
          /\ th' = [th EXCEPT ![t] =
                      Raised(@, rd.exc,
                             Event("token",
                                   [NoToken EXCEPT !.start = CurStream(t).offset,
                                                   !.position = GetPosition(CurStream(t))],
                                   <<>>))]
    /\ UNCHANGED <<input, heap, namespace>>

\* what line 803 does with the token: __ExpandVariable, or the IndexError
\* of IsSelfReference on an empty name
Expand(tok, itemStack, h, ns, build) ==
    IF ~IsValue(tok) /\ ~SelfReferenceOk(tok)
    THEN [kind |-> "raise", exc |-> PyExc("IndexError"), text |-> <<>>, frame |-> 0,
          ns |-> ns]
    ELSE ExpandVariable(tok, itemStack, h, ns, build)

\* __Render, lines 803-804: a value or self-reference token
DoExpandVariable(t) ==
    /\ AtToken(t)
    /\ \E rd \in {Read(t)} :
          /\ rd.ok
          /\ ToVariable(rd.tok)
          /\ \E r \in {Expand(rd.tok, th[t].context, heap, namespace, input.build)} :
                LET ev == [Event("variable", rd.tok, r.text) EXCEPT !.at = OutLen(t),
                                                                    !.frame = r.frame]
                IN /\ streams' = [streams EXCEPT ![Top(t).s] = rd.st]
                   /\ namespace' = r.ns
                   /\ th' = [th EXCEPT ![t] =
                               CASE r.kind = "raise" -> Raised(@, r.exc, ev)
                                 [] r.kind = "opaque" ->
                                      [@ EXCEPT !.status = "opaque", !.stack = <<>>,
                                                !.ev = ev]
                                 [] r.kind = "skip" -> [@ EXCEPT !.ev = ev]
                                 [] OTHER -> [@ EXCEPT !.out = Write(@, r.text), !.ev = ev]]
    /\ UNCHANGED <<input, heap>>

\* __Render, lines 810-812: a named character token
DoNamedCharacter(t) ==
    /\ AtToken(t)
    /\ \E rd \in {Read(t)} :
          /\ rd.ok
          /\ ~ToVariable(rd.tok) /\ ~ToBlock(rd.tok)
          /\ IsNamedCharacter(rd.tok)
          /\ LET r == EvaluateNamedCharacterToken(rd.tok, GetPosition(rd.st))
             IN /\ streams' = [streams EXCEPT ![Top(t).s] = rd.st]
                /\ th' = [th EXCEPT ![t] =
                            IF r.ok
                            THEN [@ EXCEPT !.out = Write(@, <<r.c>>),
                                           !.ev = Event("named", rd.tok, <<r.c>>)]
                            ELSE Raised(@, r.exc, Event("named", rd.tok, <<>>))]
    /\ UNCHANGED <<input, heap, namespace>>

\* __Render, lines 815-818: any other token (a block close) is invalid
InvalidToken(t) ==
    /\ AtToken(t)
    /\ \E rd \in {Read(t)} :
          /\ rd.ok
          /\ ~ToVariable(rd.tok) /\ ~ToBlock(rd.tok)
          /\ ~IsNamedCharacter(rd.tok) /\ ~IsInclude(rd.tok)
          /\ streams' = [streams EXCEPT ![Top(t).s] = rd.st]
          /\ th' = [th EXCEPT ![t] =
                      Raised(@, TemplateExc("InvalidToken", GetPosition(rd.st)),
                             Event("invalid", rd.tok, <<>>))]
    /\ UNCHANGED <<input, heap, namespace>>

RECURSIVE FormatBlock(_, _)
\* lines 718-719: tmpString = formatter.Format(tmpString), in order
FormatBlock(formatters, tmpString) ==
    IF formatters = <<>> THEN tmpString
    ELSE FormatBlock(Tail(formatters), Format(Head(formatters), StrV(tmpString)).v.s)

\* __ExpandBlock up to its loop (lines 616-677), with the token start, the
\* close token e that __FindBlockEnd found, and the lookup and the
\* normalisation of the block's value
EnterBlock(t, start, e, look, inst) ==
    LET ev == [Event("block", start, <<>>) EXCEPT !.at = OutLen(t),
                                                  !.frame = look.frame,
                                                  !.s = Top(t).s]
    IN IF start.name # e.tok.name
       THEN /\ th' = [th EXCEPT ![t] = Raised(@, PyExc("AssertionError"), ev)]
            /\ UNCHANGED heap
       ELSE IF look.skip
       THEN /\ th' = [th EXCEPT ![t] = [@ EXCEPT !.ev = [ev EXCEPT !.op = "skip"]]]
            /\ UNCHANGED heap
       ELSE IF ~SubstringOk(e.st, start.end, e.tok.start)
       THEN /\ th' = [th EXCEPT ![t] = Raised(@, PyExc("AssertionError"), ev)]
            /\ UNCHANGED heap
       ELSE IF ~inst.ok
       THEN /\ th' = [th EXCEPT ![t] = Raised(@, PyExc("TypeError"), ev)]
            /\ UNCHANGED heap
       ELSE /\ heap' = inst.heap
            /\ th' = [th EXCEPT ![t] =
                        [@ EXCEPT
                           !.ev = ev,
                           !.stack = Append(@,
                              [k |-> "block",
                               name |-> start.name,
                               negated |-> IsNegatedBlockStart(start),
                               items |-> inst.items,
                               n |-> Len(inst.items),
                               i |-> 0,
                               formatters |-> start.formatters,
                               content |-> Substring(e.st, start.end, e.tok.start),
                               handler |-> Top(t).handler,
                               value |-> look.blockItems,
                               base |-> OutLen(t),
                               mark |-> 0,
                               parts |-> <<>>])]]

\* __Render, lines 805-809, and __ExpandBlock up to its loop (lines 616-677)
DoExpandBlock(t) ==
    /\ AtToken(t)
    /\ \E rd \in {Read(t)} :
          /\ rd.ok
          /\ ToBlock(rd.tok)
          /\ \E e \in {FindBlockEnd(rd.st, rd.tok.name)} :
                /\ streams' = [streams EXCEPT ![Top(t).s] = e.st]
                /\ IF ~e.ok
                   THEN /\ th' = [th EXCEPT ![t] =
                                    Raised(@, e.exc,
                                           [Event("block", rd.tok, <<>>)
                                              EXCEPT !.at = OutLen(t)])]
                        /\ UNCHANGED heap
                   ELSE \E look \in {LookupBlock(rd.tok.name, IsNegatedBlockStart(rd.tok),
                                                 th[t].context, heap, 1)} :
                           \E inst \in {BlockInstances(look.blockItems, heap)} :
                              EnterBlock(t, rd.tok, e, look, inst)
    /\ UNCHANGED <<input, namespace>>

\* __ExpandBlock, lines 679-723: instance i is set up and its body rendered
BlockInstance(t) ==
    /\ InBlock(t)
    /\ Top(t).i < Top(t).n
    /\ \E f \in {Top(t)} :
       \E fr \in {InstanceFrame(heap, f.name, f.items, f.i, f.n)} :
       \E begin \in {BlockBeginText(f.formatters, f.i = 0)} :
          LET out1 == Write(th[t].out, begin)
              out2 == IF f.formatters # <<>> THEN Append(out1, <<>>) ELSE out1
              f2 == [f EXCEPT !.mark = Len(out2[Len(out2)]),
                              !.parts = Append(@, [i |-> f.i, frame |-> fr.current,
                                                   begin |-> begin, body |-> <<>>,
                                                   end |-> <<>>, done |-> FALSE])]
          IN /\ heap' = fr.heap
             /\ streams' = Append(streams, TextStream(f.content))
             /\ th' = [th EXCEPT ![t] =
                         [@ EXCEPT !.context = Append(@, fr.current),
                                   !.out = out2,
                                   !.stack = Append(Append(Pop(@), f2),
                                                    RenderFrame(Len(streams) + 1,
                                                                f.handler)),
                                   !.ev = Event("instance", NoToken, begin)]]
    /\ UNCHANGED <<input, namespace>>

\* an instance whose frame stays on the context stack when its body ends
InstanceReturnNoPop(t) ==
    /\ InRender(t)
    /\ IsAtEnd(CurStream(t))
    /\ Len(th[t].stack) > 1
    /\ Below(t).k = "block"
    /\ \E f \in {Below(t)} :
       \E top \in {th[t].out[Len(th[t].out)]} :
       \E body \in {IF f.formatters # <<>> THEN FormatBlock(f.formatters, top)
                    ELSE SubSeq(top, f.mark + 1, Len(top))} :
       \E end \in {BlockEndText(f.formatters, f.i + 1 = f.n)} :
          LET out1 == IF f.formatters # <<>> THEN Write(Pop(th[t].out), body)
                      ELSE th[t].out
              f2 == [f EXCEPT !.i = @ + 1,
                              !.parts = [@ EXCEPT ![Len(f.parts)] =
                                           [@ EXCEPT !.body = body, !.end = end,
                                                     !.done = TRUE]]]
          IN th' = [th EXCEPT ![t] =
                      [@ EXCEPT !.context = @,
                                !.out = Write(out1, end),
                                !.stack = Append(Pop(Pop(@)), f2),
                                !.ev = Event("instanceEnd", NoToken, body \o end)]]
    /\ UNCHANGED <<input, heap, streams, namespace>>

\* an instance whose suffixes pass through the Format of the block's
\* formatters before they are written
InstanceReturnFormatsSuffix(t) ==
    /\ InRender(t)
    /\ IsAtEnd(CurStream(t))
    /\ Len(th[t].stack) > 1
    /\ Below(t).k = "block"
    /\ \E f \in {Below(t)} :
       \E top \in {th[t].out[Len(th[t].out)]} :
       \E body \in {IF f.formatters # <<>> THEN FormatBlock(f.formatters, top)
                    ELSE SubSeq(top, f.mark + 1, Len(top))} :
       \E end \in {BlockEndText(f.formatters, f.i + 1 = f.n)} :
          LET out1 == IF f.formatters # <<>> THEN Write(Pop(th[t].out), body)
                      ELSE th[t].out
              f2 == [f EXCEPT !.i = @ + 1,
                              !.parts = [@ EXCEPT ![Len(f.parts)] =
                                           [@ EXCEPT !.body = body, !.end = end,
                                                     !.done = TRUE]]]
          IN th' = [th EXCEPT ![t] =
                      [@ EXCEPT !.context = Pop(@),
                                !.out = Write(out1, IF f.formatters # <<>>
                                                    THEN FormatBlock(f.formatters, end)
                                                    ELSE end),
                                !.stack = Append(Pop(Pop(@)), f2),
                                !.ev = Event("instanceEnd", NoToken, body \o end)]]
    /\ UNCHANGED <<input, heap, streams, namespace>>

\* __Render returns to __ExpandBlock, lines 716-730: the body is formatted
\* and written, the frame popped, the suffixes written
InstanceReturn(t) ==
    /\ InRender(t)
    /\ IsAtEnd(CurStream(t))
    /\ Len(th[t].stack) > 1
    /\ Below(t).k = "block"
    /\ \E f \in {Below(t)} :
       \E top \in {th[t].out[Len(th[t].out)]} :
       \E body \in {IF f.formatters # <<>> THEN FormatBlock(f.formatters, top)
                    ELSE SubSeq(top, f.mark + 1, Len(top))} :
       \E end \in {BlockEndText(f.formatters, f.i + 1 = f.n)} :
          LET out1 == IF f.formatters # <<>> THEN Write(Pop(th[t].out), body)
                      ELSE th[t].out
              f2 == [f EXCEPT !.i = @ + 1,
                              !.parts = [@ EXCEPT ![Len(f.parts)] =
                                           [@ EXCEPT !.body = body, !.end = end,
                                                     !.done = TRUE]]]
          IN th' = [th EXCEPT ![t] =
                      [@ EXCEPT !.context = Pop(@),
                                !.out = Write(out1, end),
                                !.stack = Append(Pop(Pop(@)), f2),
                                !.ev = Event("instanceEnd", NoToken, body \o end)]]
    /\ UNCHANGED <<input, heap, streams, namespace>>

\* __ExpandBlock returns: the loop over the instances has ended
BlockReturn(t) ==
    /\ InBlock(t)
    /\ Top(t).i = Top(t).n
    /\ th' = [th EXCEPT ![t] =
                [@ EXCEPT !.stack = Pop(@),
                          !.ev = [Event("blockEnd", NoToken,
                                        SubSeq(th[t].out[Len(th[t].out)],
                                               Top(t).base + 1, OutLen(t)))
                                  EXCEPT !.at = Top(t).base, !.block = Top(t)]]]
    /\ UNCHANGED <<input, heap, streams, namespace>>

\* an include that renders the included template on the root frame alone
\* instead of the includer's context stack
DoExpandIncludeOnRoot(t) ==
    /\ AtToken(t)
    /\ \E rd \in {Read(t)} :
          /\ rd.ok
          /\ ~ToVariable(rd.tok) /\ ~ToBlock(rd.tok) /\ ~IsNamedCharacter(rd.tok)
          /\ IsInclude(rd.tok)
          /\ LET got == IncludeGet(rd.tok.name)
                 ev == Event("include", rd.tok, <<>>)
             IN IF ~Top(t).handler
                THEN /\ streams' = [streams EXCEPT ![Top(t).s] = rd.st]
                     /\ th' = [th EXCEPT ![t] = Raised(@, PyExc("AssertionError"), ev)]
                ELSE IF ~got.ok
                THEN /\ streams' = [streams EXCEPT ![Top(t).s] = rd.st]
                     /\ th' = [th EXCEPT ![t] = Raised(@, PyExc("AttributeError"), ev)]
                ELSE /\ streams' = Append([streams EXCEPT ![Top(t).s] = rd.st],
                                          TextStream(got.text))
                     /\ th' = [th EXCEPT ![t] =
                                 [@ EXCEPT !.stack = Append(@, RenderFrame(Len(streams) + 1,
                                                                            FALSE)),
                                           !.context = <<th[t].root>>,
                                           !.ev = ev]]
    /\ UNCHANGED <<input, heap, namespace>>

\* __Render, lines 813-814, and __ExpandInclude: the handler's Template is
\* rendered with the same item stack and output
DoExpandInclude(t) ==
    /\ AtToken(t)
    /\ \E rd \in {Read(t)} :
          /\ rd.ok
          /\ ~ToVariable(rd.tok) /\ ~ToBlock(rd.tok) /\ ~IsNamedCharacter(rd.tok)
          /\ IsInclude(rd.tok)
          /\ LET got == IncludeGet(rd.tok.name)
                 ev == Event("include", rd.tok, <<>>)
             IN IF ~Top(t).handler
                THEN /\ streams' = [streams EXCEPT ![Top(t).s] = rd.st]
                     /\ th' = [th EXCEPT ![t] = Raised(@, PyExc("AssertionError"), ev)]
                ELSE IF ~got.ok
                THEN /\ streams' = [streams EXCEPT ![Top(t).s] = rd.st]
                     /\ th' = [th EXCEPT ![t] = Raised(@, PyExc("AttributeError"), ev)]
                ELSE /\ streams' = Append([streams EXCEPT ![Top(t).s] = rd.st],
                                          TextStream(got.text))
                     /\ th' = [th EXCEPT ![t] =
                                 [@ EXCEPT !.stack = Append(@, RenderFrame(Len(streams) + 1,
                                                                            FALSE)),
                                           !.ev = ev]]
    /\ UNCHANGED <<input, heap, namespace>>

\* template.__RenderTo returns to __ExpandInclude
IncludeReturn(t) ==
    /\ InRender(t)
    /\ IsAtEnd(CurStream(t))
    /\ Len(th[t].stack) > 1
    /\ Below(t).k = "render"
    /\ th' = [th EXCEPT ![t] =
                [@ EXCEPT !.stack = Pop(@),
                          !.ev = Event("includeEnd", NoToken, <<>>)]]
    /\ UNCHANGED <<input, heap, streams, namespace>>

\* Render, lines 832-833: the stream is reset and the output returned
RenderReturn(t) ==
    /\ InRender(t)
    /\ IsAtEnd(CurStream(t))
    /\ Len(th[t].stack) = 1
    /\ streams' = [streams EXCEPT ![th[t].tpl] = Reset(@)]
    /\ th' = [th EXCEPT ![t] =
                [@ EXCEPT !.status = "returned", !.stack = <<>>, !.context = <<>>,
                          !.out = <<>>,
                          !.log = IF th[t].tpl = 1
                                  THEN Append(@, [ok |-> TRUE, text |-> th[t].out[1],
                                                  exc |-> NoExc])
                                  ELSE @,
                          !.inlined = IF th[t].tpl = 2
                                      THEN Append(@, [ok |-> TRUE, text |-> th[t].out[1],
                                                      exc |-> NoExc])
                                      ELSE @,
                          !.ev = Event("return", NoToken, th[t].out[1])]]
    /\ UNCHANGED <<input, heap, namespace>>

Next ==
    \E t \in Threads :
       \/ RenderCall(t)
       \/ RenderInlinedCall(t)
       \/ PassThrough(t)
       \/ TokenError(t)
       \/ DoExpandVariable(t)
       \/ DoNamedCharacter(t)
       \/ InvalidToken(t)
       \/ DoExpandBlock(t)
       \/ BlockInstance(t)
       \/ InstanceReturn(t)
       \/ BlockReturn(t)
       \/ DoExpandInclude(t)
       \/ IncludeReturn(t)
       \/ RenderReturn(t)

Spec == Init /\ [][Next]_vars

(***************************************************************************)
(* Properties                                                              *)
(***************************************************************************)
\* the frames of a context stack that bind a name, and the innermost of them
Binders(name, context) == {k \in 1..Len(context) : name \in DOMAIN heap[context[k]]}
Innermost(B) == CHOOSE k \in B : \A j \in B : j <= k
\* the text written by the last step is the end of the output
WroteAtEnd(t) ==
    LET top == th[t].out[Len(th[t].out)]
    IN /\ Len(top) = th[t].ev.at + Len(th[t].ev.text)
       /\ SubSeq(top, th[t].ev.at + 1, Len(top)) = th[t].ev.text

\* a value token {{x}}: no prefix, a plain name, no formatters
PlainValueToken(tok) ==
    /\ tok.prefix = NoPrefix
    /\ tok.name # <<>>
    /\ \A k \in 1..Len(tok.name) : tok.name[k] # "."
    /\ tok.formatters = <<>>

\* C1: a value token {{x}} without formatters writes exactly str(v) at its
\* place when the binding of x (in the frame the lookup of C2 finds) is a
\* non-None value v, and writes nothing when no frame binds x; in both cases
\* no error is raised.
C1_ValueTokenWritesStr ==
    \A t \in Threads :
       LET e == th[t].ev
       IN (e.op = "variable" /\ PlainValueToken(e.tok)) =>
             /\ th[t].status = "running"
             /\ LET B == Binders(e.tok.name, th[t].context)
                IN IF B = {}
                   THEN e.text = <<>> /\ OutLen(t) = e.at
                   ELSE LET v == heap[th[t].context[Innermost(B)]][e.tok.name]
                        IN (~IsNone(v) /\ StrOk(v)) =>
                              e.text = PyStr(v) /\ WroteAtEnd(t)

\* C1 witness: {{x}} with x bound to the integer 42 has written "42"
C1_Witness ==
    \E t \in Threads :
       /\ th[t].ev.op = "variable" /\ PlainValueToken(th[t].ev.tok)
       /\ Binders(th[t].ev.tok.name, th[t].context) # {}
       /\ heap[th[t].context[1]][th[t].ev.tok.name] = IntV(42)
       /\ th[t].ev.text = <<"4", "2">>
       /\ th[t].out[1] = <<"4", "2">>

\* C2: the frame a value token's name is taken from is the most recently
\* pushed frame that binds it (an outer frame only when no inner one does),
\* and the text written is that binding's.
C2_VariableLookupInnermostFirst ==
    \A t \in Threads :
       LET e == th[t].ev
           B == Binders(e.tok.name, th[t].context)
       IN (e.op = "variable" /\ PlainValueToken(e.tok) /\ th[t].status = "running") =>
             /\ e.frame = (IF B = {} THEN 0 ELSE Innermost(B))
             /\ \A k \in B :
                   LET v == heap[th[t].context[k]][e.tok.name]
                   IN (k = Innermost(B) /\ ~IsNone(v) /\ StrOk(v)) => e.text = PyStr(v)

\* C2 witness: x is bound in two frames to different values and the inner
\* one was written
C2_Witness ==
    \E t \in Threads :
       LET e == th[t].ev
           c == th[t].context
       IN /\ e.op = "variable" /\ PlainValueToken(e.tok)
          /\ Len(c) >= 2
          /\ Cardinality(Binders(e.tok.name, c)) >= 2
          /\ heap[c[1]][e.tok.name] # heap[c[Len(c)]][e.tok.name]
          /\ e.frame = Len(c)
          /\ e.text = PyStr(heap[c[Len(c)]][e.tok.name])

\* C2 witness of the fallback: x is bound in the root frame only and was
\* found there from inside a block
C2_FallbackReached ==
    \E t \in Threads :
       /\ th[t].ev.op = "variable" /\ PlainValueToken(th[t].ev.tok)
       /\ Len(th[t].context) >= 2
       /\ Binders(th[t].ev.tok.name, th[t].context) = {1}
       /\ th[t].ev.frame = 1

\* the last step was the lookup of a block's name by __ExpandBlock, and the
\* render goes on (the context stack is as the lookup saw it)
BlockLookedUp(t) ==
    /\ th[t].ev.op \in {"block", "skip"}
    /\ th[t].status = "running"
\* the value a frame binds a name to
Bound(t, k, name) == heap[th[t].context[k]][name]
\* the block was entered with one instance, none rendered yet
EnteredOnce(t) ==
    /\ th[t].ev.op = "block"
    /\ Top(t).k = "block" /\ Top(t).n = 1 /\ Top(t).i = 0

\* C3 (as claimed): the value that decides skipping and that is iterated is
\* the binding of the block's name in the most recently pushed frame that
\* binds it.
C3_BlockLookupInnermostFirst ==
    \A t \in Threads :
       LET e == th[t].ev
           B == Binders(e.tok.name, th[t].context)
       IN (BlockLookedUp(t) /\ B # {}) =>
             Bound(t, e.frame, e.tok.name) = Bound(t, Innermost(B), e.tok.name)

\* C5 (as claimed): a non-negated block whose name is bound to None (in every
\* frame that binds it) is entered and rendered once.
C5_NoneBlockRendersOnce ==
    \A t \in Threads :
       LET e == th[t].ev
           B == Binders(e.tok.name, th[t].context)
       IN (BlockLookedUp(t) /\ e.tok.prefix = "#" /\ B # {}
           /\ \A k \in B : IsNone(Bound(t, k, e.tok.name))) =>
             EnteredOnce(t)

\* C6: a negated block is entered with exactly one instance when its name is
\* bound in no frame or bound to None, and is skipped, writing nothing, when
\* its name is bound to a non-null value (an empty list, 0, False and ''
\* included); a negated block that returns has rendered its body once, and a
\* body without tokens is then the text it wrote.  (Frames that disagree on
\* None or non-null are decided by the lookup order, the subject of C3.)
C6_NegatedBlock ==
    \A t \in Threads :
       LET e == th[t].ev
           B == Binders(e.tok.name, th[t].context)
       IN /\ (BlockLookedUp(t) /\ e.tok.prefix = "!") =>
                /\ (\A k \in B : IsNone(Bound(t, k, e.tok.name))) => EnteredOnce(t)
                /\ (B # {} /\ \A k \in B : ~IsNone(Bound(t, k, e.tok.name))) =>
                      e.op = "skip" /\ OutLen(t) = e.at
          /\ (e.op = "blockEnd" /\ e.block.negated) =>
                /\ Len(e.block.parts) = 1
                /\ e.block.parts[1].done
                /\ e.text = e.block.parts[1].body
                /\ (\A k \in 1..Len(e.block.content) : e.block.content[k] # "{") =>
                      e.text = e.block.content

\* C6 witness: a negated block whose name is bound to None has returned after
\* writing its body
C6_Witness ==
    \E t \in Threads :
       /\ th[t].ev.op = "blockEnd" /\ th[t].ev.block.negated
       /\ th[t].ev.block.name \in DOMAIN heap[th[t].root]
       /\ IsNone(heap[th[t].root][th[t].ev.block.name])
       /\ th[t].ev.text = <<"X">>

\* C6 witness: a negated block whose name is bound to an empty list was skipped
C6_SkipReached ==
    \E t \in Threads :
       /\ BlockLookedUp(t) /\ th[t].ev.tok.prefix = "!" /\ th[t].ev.op = "skip"
       /\ Binders(th[t].ev.tok.name, th[t].context) = {1}
       /\ Bound(t, 1, th[t].ev.tok.name) = ListV(<<>>)

RECURSIVE PartsText(_)
\* what the instances of a block wrote, one after the other
PartsText(parts) ==
    IF parts = <<>> THEN <<>>
    ELSE Head(parts).begin \o Head(parts).body \o Head(parts).end \o PartsText(Tail(parts))

RECURSIVE StrAll(_)
\* str() of every value of a sequence, concatenated
StrAll(values) ==
    IF values = <<>> THEN <<>> ELSE PyStr(Head(values)) \o StrAll(Tail(values))

\* an __ExpandBlock call in its loop: the instances are those of the value the
\* name resolved to, and they were rendered in order, each against its frame
InstancesInOrder(f) ==
    /\ f.n = Len(f.items)
    /\ IsList(f.value) => f.items = f.value.l
    /\ (IsRef(f.value) \/ IsPrimitiveType(f.value)) => f.items = <<f.value>>
    /\ Len(f.parts) <= f.n
    /\ \A j \in 1..Len(f.parts) :
          /\ f.parts[j].i = j - 1
          /\ heap[f.parts[j].frame][<<".">>] = f.items[j]
          /\ f.parts[j].done <=> j <= f.i
    /\ f.i \in {Len(f.parts), Len(f.parts) - 1}

\* C4: a block renders its body once per instance, in the order of the
\* sequence its name resolved to (once for a mapping or a scalar of any
\* truthiness, never for an empty sequence), and when it returns its output is
\* what the n instances wrote, in that order: for the body {{.}} over scalars,
\* str() of each element in sequence order.
C4_BlockIterationCountAndOrder ==
    \A t \in Threads :
       /\ \A p \in 1..Len(th[t].stack) :
             th[t].stack[p].k = "block" => InstancesInOrder(th[t].stack[p])
       /\ th[t].ev.op = "blockEnd" =>
             LET f == th[t].ev.block
             IN /\ InstancesInOrder(f)
                /\ Len(f.parts) = f.n /\ f.i = f.n
                /\ th[t].ev.text = PartsText(f.parts)
                /\ (/\ f.content = <<"{", "{", ".", "}", "}">>
                    /\ f.formatters = <<>>
                    /\ \A j \in 1..f.n : IsPrimitiveType(f.items[j])) =>
                      th[t].ev.text = StrAll(f.items)

\* C4 witness: a block over the list [1, 2, 3] has returned after writing 123
C4_Witness ==
    \E t \in Threads :
       /\ th[t].ev.op = "blockEnd"
       /\ th[t].ev.block.value = ListV(<<IntV(1), IntV(2), IntV(3)>>)
       /\ Len(th[t].ev.block.parts) = 3
       /\ th[t].ev.text = <<"1", "2", "3">>

\* C4 witness: a block over the scalar 0 has rendered its body once
C4_FalsyScalarReached ==
    \E t \in Threads :
       /\ th[t].ev.op = "blockEnd"
       /\ th[t].ev.block.value = IntV(0)
       /\ Len(th[t].ev.block.parts) = 1
       /\ th[t].ev.text = <<"0">>

BlockOpen(name) == <<"{", "{", "#">> \o name \o <<"}", "}">>
BlockClose(name) == <<"{", "{", "/">> \o name \o <<"}", "}">>
NoBrace(text) == \A k \in 1..Len(text) : text[k] \notin {"{", "}"}
\* text ends with the given word
EndsWith(text, word) ==
    /\ Len(text) >= Len(word)
    /\ SubSeq(text, Len(text) - Len(word) + 1, Len(text)) = word
\* word occurs in text
Occurs(word, text) ==
    \E k \in 1..(Len(text) - Len(word) + 1) : SubSeq(text, k, k + Len(word) - 1) = word

\* the template is p {{#name}} body {{/name}} q, with plain text p and q and
\* no close of that name inside the body
AroundBlock(template, name, p, q) ==
    /\ NoBrace(p) /\ NoBrace(q)
    /\ Len(template) >= Len(p) + Len(BlockOpen(name)) + Len(BlockClose(name)) + Len(q)
    /\ SubSeq(template, 1, Len(p) + Len(BlockOpen(name))) = p \o BlockOpen(name)
    /\ EndsWith(template, BlockClose(name) \o q)
    /\ ~Occurs(BlockClose(name),
               SubSeq(template, Len(p) + Len(BlockOpen(name)) + 1,
                      Len(template) - Len(q) - Len(BlockClose(name))))

\* C7: a non-negated block whose name no frame binds is skipped: nothing is
\* written, and the stream is left right after the close token of that name;
\* a template that is text, such a block, text renders to the two texts.
C7_UnboundBlockSkipped ==
    \A t \in Threads :
       LET e == th[t].ev
       IN /\ (BlockLookedUp(t) /\ e.tok.prefix = "#"
              /\ Binders(e.tok.name, th[t].context) = {}) =>
                /\ e.op = "skip"
                /\ OutLen(t) = e.at
                /\ Top(t).k = "render"
                /\ CurStream(t).offset >= e.tok.end + Len(BlockClose(e.tok.name))
                /\ EndsWith(SubSeq(CurStream(t).text, 1, CurStream(t).offset),
                            BlockClose(e.tok.name))
          /\ e.op = "return" =>
                \A name \in {<<"a">>, <<"b">>, <<"s">>} :
                   \A i \in 0..Len(input.template), j \in 0..Len(input.template) :
                      (/\ name \notin DOMAIN heap[th[t].root]
                       /\ AroundBlock(input.template, name,
                                      SubSeq(input.template, 1, i),
                                      SubSeq(input.template, Len(input.template) - j + 1,
                                             Len(input.template)))) =>
                         e.text = SubSeq(input.template, 1, i)
                                  \o SubSeq(input.template, Len(input.template) - j + 1,
                                            Len(input.template))

\* C7 witness: p{{#b}}t{{x}}{{/b}}q with b unbound: the block was skipped
\* with the stream at q
C7_Witness ==
    \E t \in Threads :
       /\ BlockLookedUp(t) /\ th[t].ev.op = "skip" /\ th[t].ev.tok.prefix = "#"
       /\ Binders(th[t].ev.tok.name, th[t].context) = {}
       /\ th[t].out[1] = <<"p">>
       /\ Peek(CurStream(t)) = "q"

\* C7 witness: that template has returned pq
C7_ReturnReached ==
    \E t \in Threads :
       /\ th[t].ev.op = "return" /\ th[t].ev.text = <<"p", "q">>
       /\ <<"b">> \notin DOMAIN heap[th[t].root]
       /\ AroundBlock(input.template, <<"b">>, <<"p">>, <<"q">>)

\* the marker name#<suffix> is a key of the dict
HasMarker(frame, name, suffix) == (name \o <<"#">> \o suffix) \in DOMAIN heap[frame]

\* C8: when the value of a block is a sequence, the frame of the instance
\* being rendered binds name#First only for the first element, name#Separator
\* for every element except the last, and name#Last only for the last.
C8_IterationMarkers ==
    \A t \in Threads :
       \A p \in 1..Len(th[t].stack) :
          LET f == th[t].stack[p]
          IN (/\ f.k = "block" /\ IsList(f.value)
              /\ f.parts # <<>> /\ ~f.parts[Len(f.parts)].done
              /\ IsRef(f.items[Len(f.parts)])) =>
                LET i == f.parts[Len(f.parts)].i
                    frame == f.parts[Len(f.parts)].frame
                IN /\ HasMarker(frame, f.name, <<"F", "i", "r", "s", "t">>) <=> i = 0
                   /\ HasMarker(frame, f.name,
                                <<"S", "e", "p", "a", "r", "a", "t", "o", "r">>) <=> i < f.n - 1
                   /\ HasMarker(frame, f.name, <<"L", "a", "s", "t">>) <=> i = f.n - 1

RECURSIVE Join(_, _)
\* sep.join(texts)
Join(texts, sep) ==
    IF texts = <<>> THEN <<>>
    ELSE IF Len(texts) = 1 THEN texts[1]
    ELSE texts[1] \o sep \o Join(Tail(texts), sep)

\* the separators of a block's list-separator formatters
ListSeparators(formatters) ==
    SelectSeq(formatters, LAMBDA f : f.cls = "ListSeparatorFormatter")

\* C9: with a list-separator of value v on a block, v follows every instance
\* except the last and nothing follows the last: r0 v r1 ... v r(n-1).
C9_ListSeparator ==
    \A t \in Threads :
       LET e == th[t].ev
       IN (e.op = "blockEnd" /\ Len(ListSeparators(e.block.formatters)) = 1) =>
             LET f == e.block
                 v == ListSeparators(f.formatters)[1].s
             IN /\ \A j \in 1..f.n :
                      f.parts[j].end = IF j < f.n THEN v ELSE <<>>
                /\ Len(f.formatters) = 1 =>
                      e.text = Join([j \in 1..f.n |-> f.parts[j].body], v)

\* C9 witness: {{#s:separator=NEWLINE}}{{.}}{{/s}} over [1, 2, 3] has
\* written 1, 2 and 3 with a line feed between them
C9_Witness ==
    \E t \in Threads :
       /\ th[t].ev.op = "blockEnd"
       /\ Len(ListSeparators(th[t].ev.block.formatters)) = 1
       /\ th[t].ev.block.n = 3
       /\ th[t].ev.text = <<"1", "\n", "2", "\n", "3">>

\* C10: the formatters of a value token are applied left to right, each
\* to the result of the one before, and the last result is what str() writes:
\* width=-4 then prefix=a on 'b' gives 'a   b', the other order '  ab'.
C10_FormattersLeftToRight ==
    \A t \in Threads :
       LET e == th[t].ev
           B == Binders(e.tok.name, th[t].context)
       IN (e.op = "variable" /\ e.tok.prefix = NoPrefix /\ B # {}
           /\ Len(e.tok.formatters) \in {2, 3} /\ th[t].status = "running") =>
             LET v == Bound(t, Innermost(B), e.tok.name)
                 f == e.tok.formatters
                 r1 == Format(f[1], v).v
                 r2 == Format(f[2], r1).v
                 r == IF Len(f) = 2 THEN r2 ELSE Format(f[3], r2).v
             IN /\ e.text = PyStr(r)
                /\ (v = StrV(<<"b">>) /\ f[1].cls = "WidthFormatter"
                    /\ f[2].cls = "PrefixFormatter") => e.text = <<"a", " ", " ", " ", "b">>
                /\ (v = StrV(<<"b">>) /\ f[1].cls = "PrefixFormatter"
                    /\ f[2].cls = "WidthFormatter") => e.text = <<" ", " ", "a", "b">>

\* C10 witness: {{x:width=-4:prefix=a}} on 'b' has written 'a   b'
C10_Witness ==
    \E t \in Threads :
       /\ th[t].ev.op = "variable" /\ th[t].status = "running"
       /\ Len(th[t].ev.tok.formatters) = 2
       /\ th[t].ev.tok.formatters[1].cls = "WidthFormatter"
       /\ th[t].ev.text = <<"a", " ", " ", " ", "b">>

\* C10 witness: {{x:prefix=a:width=-4}} on 'b' has written '  ab'
C10_OtherOrderReached ==
    \E t \in Threads :
       /\ th[t].ev.op = "variable" /\ th[t].status = "running"
       /\ Len(th[t].ev.tok.formatters) = 2
       /\ th[t].ev.tok.formatters[1].cls = "PrefixFormatter"
       /\ th[t].ev.text = <<" ", " ", "a", "b">>

\* C9 witness: a separated block over one instance has returned without
\* writing the separator
C9_SingleReached ==
    \E t \in Threads :
       /\ th[t].ev.op = "blockEnd"
       /\ Len(ListSeparators(th[t].ev.block.formatters)) = 1
       /\ th[t].ev.block.n = 1
       /\ th[t].ev.text = th[t].ev.block.parts[1].body
       /\ th[t].ev.text # <<>>

(***************************************************************************)
(* Formatters and tokens that cannot be built                              *)
(***************************************************************************)
\* a name without a dot: the whole name is looked up, no path is walked
SimpleName(name) == name # <<>> /\ \A k \in 1..Len(name) : name[k] # "."

\* C11 (as claimed): {{x:default=d}} writes d when no frame of the context
\* stack binds x and when x is bound to None, and writes str(v) when x is
\* bound to a non-None value v.
C11_DefaultFormatterOnAbsentOrNone ==
    \A t \in Threads :
       LET e == th[t].ev
           B == Binders(e.tok.name, th[t].context)
       IN (e.op = "variable" /\ th[t].status = "running"
           /\ e.tok.prefix = NoPrefix /\ SimpleName(e.tok.name)
           /\ Len(e.tok.formatters) = 1
           /\ e.tok.formatters[1].cls = "DefaultFormatter") =>
             IF B = {} THEN e.text = e.tok.formatters[1].s
             ELSE IF IsNone(Bound(t, Innermost(B), e.tok.name))
                  THEN e.text = e.tok.formatters[1].s
                  ELSE e.text = PyStr(Bound(t, Innermost(B), e.tok.name))

\* the parts of C11 the code keeps: d for a binding to None, str(v) for any
\* other binding
C11_DefaultFormatterOnBound ==
    \A t \in Threads :
       LET e == th[t].ev
           B == Binders(e.tok.name, th[t].context)
       IN (e.op = "variable" /\ th[t].status = "running"
           /\ e.tok.prefix = NoPrefix /\ SimpleName(e.tok.name)
           /\ Len(e.tok.formatters) = 1
           /\ e.tok.formatters[1].cls = "DefaultFormatter" /\ B # {}) =>
             IF IsNone(Bound(t, Innermost(B), e.tok.name))
             THEN e.text = e.tok.formatters[1].s
             ELSE e.text = PyStr(Bound(t, Innermost(B), e.tok.name))

\* C12 (as claimed): a token is built with a block formatter only when it is
\* a block-open ('#') token, and with a value formatter only when it has no
\* prefix and its name does not begin with '.'; any other attachment raised
\* InvalidFormatter, so no such token is ever expanded.
C12_FormatterCapability ==
    \A t \in Threads :
       LET tok == th[t].ev.tok
       IN \A k \in 1..Len(tok.formatters) :
             IF tok.formatters[k].cls \in BlockClasses
             THEN tok.prefix = "#"
             ELSE tok.prefix = NoPrefix /\ tok.name # <<>> /\ tok.name[1] # "."

\* the capability check the code makes: a value formatter is refused on the
\* name '.' only, a dotted self-reference such as .x passes as a value
C12_FormatterCapabilityOfIsValue ==
    \A t \in Threads :
       LET tok == th[t].ev.tok
       IN \A k \in 1..Len(tok.formatters) :
             IF tok.formatters[k].cls \in BlockClasses
             THEN tok.prefix = "#"
             ELSE tok.prefix = NoPrefix /\ tok.name # <<".">>

\* the text __ReadToken consumed for the token it failed on, from its {{
RawToken(t) ==
    SubSeq(streams[th[t].ev.s].text, th[t].ev.tok.start + 1, streams[th[t].ev.s].offset)

\* __Render's __ReadToken raised after it had read a well delimited token:
\* the error comes from Token.__init__, that is from a formatter spec
RaisedInTokenInit(t) ==
    /\ th[t].status = "raised" /\ th[t].ev.op = "token"
    /\ Len(RawToken(t)) >= 4
    /\ SubSeq(RawToken(t), 1, 2) = <<"{", "{">>
    /\ EndsWith(RawToken(t), <<"}", "}">>)
    /\ \A k \in 3..(Len(RawToken(t)) - 2) : RawToken(t)[k] # "}"

\* C13 (as claimed): a formatter spec key[=value] that cannot be turned into
\* a formatter raises InvalidFormatter carrying the token's position, whatever
\* the reason (unknown key, missing or empty argument, unwanted argument,
\* non-numeric argument, more than one '=').
C13_BadFormatterRaisesInvalidFormatter ==
    \A t \in Threads :
       RaisedInTokenInit(t) =>
          /\ th[t].exc.type = "InvalidFormatter"
          /\ th[t].exc.line = th[t].ev.tok.position.line
          /\ th[t].exc.column = th[t].ev.tok.position.column

\* what the code does: the errors of Token.__init__ are InvalidFormatter at
\* the token's position, or the TypeError or ValueError of a formatter's
\* constructor, which carry no position
C13_BadFormatterRaises ==
    \A t \in Threads :
       RaisedInTokenInit(t) =>
          \/ /\ th[t].exc.type = "InvalidFormatter"
             /\ th[t].exc.line = th[t].ev.tok.position.line
             /\ th[t].exc.column = th[t].ev.tok.position.column
          \/ th[t].exc.type \in {"TypeError", "ValueError"}

\* text has {{ at offset i, and no }} between it and offset off
OpenUnterminated(text, i, off) ==
    /\ i + 2 <= Len(text) /\ i <= off
    /\ text[i + 1] = "{" /\ text[i + 2] = "{"
    /\ \A k \in (i + 3)..(off - 1) : ~(text[k] = "}" /\ text[k + 1] = "}")

\* the step that raised was reading a token whose {{ is not terminated by }}
\* where the stream stopped: the token __Render was reading, or a token the
\* block matcher met after the block-open token of the event
RaisedOnUnterminated(t) ==
    LET e == th[t].ev
        text == streams[e.s].text
        off == streams[e.s].offset
    IN /\ th[t].status = "raised"
       /\ \/ e.op = "token" /\ OpenUnterminated(text, e.tok.start, off)
          \/ /\ e.op = "block"
             /\ \E i \in e.tok.end..off :
                   /\ OpenUnterminated(text, i, off)
                   /\ i < off \/ off = e.tok.end \/ text[off] # "}"

\* C14 (as claimed): when a {{ reached by the renderer or by the block
\* matcher is not terminated by }} (the end of the input comes first, or a
\* single } is not followed by a second one), Render raises InvalidToken.
C14_UnterminatedRaisesInvalidToken ==
    \A t \in Threads :
       RaisedOnUnterminated(t) => th[t].exc.type = "InvalidToken"

\* what the code does: InvalidToken, except that a {{ with nothing after it
\* fails the assertion of TextStream.Skip
C14_UnterminatedRaises ==
    \A t \in Threads :
       RaisedOnUnterminated(t) =>
          LET text == streams[th[t].ev.s].text
              off == streams[th[t].ev.s].offset
          IN IF off + 2 = Len(text) /\ text[off + 1] = "{"
             THEN th[t].exc.type = "AssertionError"
             ELSE th[t].exc.type = "InvalidToken"

\* an unterminated {{ never lets the first Render return: when the first {{
\* of the template (with no { before it) has no }} after it, it raises
C14_UnterminatedNeverReturns ==
    \A t \in Threads :
       (th[t].tpl = 1 /\ th[t].renders = 1 /\ th[t].status = "returned") =>
          ~\E i \in 0..Len(input.template) :
              /\ OpenUnterminated(input.template, i, Len(input.template))
              /\ \A k \in 1..i : input.template[k] # "{"

(***************************************************************************)
(* Block nesting                                                           *)
(***************************************************************************)
\* the offsets at or after from where text has {{
TokenStarts(text, from) ==
    {i \in from..(Len(text) - 2) : text[i + 1] = "{" /\ text[i + 2] = "{"}

\* the index of the first } after the {{ at offset i, 0 when there is none
FirstBrace(text, i) ==
    IF \E k \in (i + 3)..Len(text) : text[k] = "}"
    THEN CHOOSE k \in (i + 3)..Len(text) :
            text[k] = "}" /\ \A j \in (i + 3)..(k - 1) : text[j] # "}"
    ELSE 0

\* every {{ at or after from begins a token {{payload}} whose payload is not
\* empty and has no { and no formatter
PlainTokensFrom(text, from) ==
    \A i \in TokenStarts(text, from) :
       LET k == FirstBrace(text, i)
       IN /\ k > i + 3 /\ k + 1 <= Len(text) /\ text[k + 1] = "}"
          /\ \A j \in (i + 3)..(k - 1) : text[j] \notin {"{", ":"}

IsOpenAt(text, i) == text[i + 3] \in {"#", "!"}
IsCloseAt(text, i) == text[i + 3] = "/"
NameAt(text, i) == SubSeq(text, i + 4, FirstBrace(text, i) - 1)

\* the number of blocks open before the token at offset i, the block whose
\* end is sought included
DepthBefore(text, from, i) ==
    1 + Cardinality({j \in TokenStarts(text, from) : j < i /\ IsOpenAt(text, j)})
      - Cardinality({j \in TokenStarts(text, from) : j < i /\ IsCloseAt(text, j)})

\* the name of the innermost block open before the block-close at offset c
\* (of the sought block itself when no other is open; only the closes up to
\* the first that ends the search have an open block before them)
OpenNameBefore(text, from, name, c) ==
    LET opens == {m \in TokenStarts(text, from) :
                    /\ m < c /\ IsOpenAt(text, m)
                    /\ DepthBefore(text, from, m) = DepthBefore(text, from, c) - 1}
    IN IF DepthBefore(text, from, c) <= 1 \/ opens = {} THEN name
       ELSE NameAt(text, CHOOSE m \in opens : \A o \in opens : o <= m)

\* the block-close tokens that end the search: the close of the sought block
\* and every close that names another block than the innermost open one
Stops(text, from, name) ==
    {c \in TokenStarts(text, from) :
       /\ IsCloseAt(text, c)
       /\ \/ DepthBefore(text, from, c) = 1
          \/ NameAt(text, c) # OpenNameBefore(text, from, name, c)}

\* how the search for the end of the block name ends in text after offset
\* from: "eof" (never closed), "mismatch" (a close that names another block
\* than the innermost open one), or "found"
Nesting(text, from, name) ==
    IF Stops(text, from, name) = {} THEN "eof"
    ELSE LET c == CHOOSE c \in Stops(text, from, name) :
                     \A o \in Stops(text, from, name) : c <= o
         IN IF NameAt(text, c) # OpenNameBefore(text, from, name, c)
            THEN "mismatch" ELSE "found"

\* the last step was __Render's handling of a block-open token whose body
\* holds plain tokens only
MatcherRan(t) ==
    /\ th[t].ev.op \in {"block", "skip"}
    /\ th[t].ev.s # 0
    /\ PlainTokensFrom(streams[th[t].ev.s].text, th[t].ev.tok.end)

NestingOf(t) ==
    Nesting(streams[th[t].ev.s].text, th[t].ev.tok.end, th[t].ev.tok.name)

\* C15: the block matcher raises InvalidBlock when the input ends before the
\* block is closed and when it meets a block-close that does not name the
\* innermost open block, whether or not the block's name is bound; when the
\* matching close is found it does not.
C15_MatcherRaisesInvalidBlock ==
    \A t \in Threads :
       MatcherRan(t) =>
          /\ NestingOf(t) \in {"eof", "mismatch"} =>
                th[t].status = "raised" /\ th[t].exc.type = "InvalidBlock"
          /\ NestingOf(t) = "found" =>
                ~(th[t].status = "raised" /\ th[t].exc.type = "InvalidBlock")

\* C15 witness: {{#b}}{{/c}} raised InvalidBlock with b bound in the context
C15_Witness ==
    \E t \in Threads :
       /\ MatcherRan(t) /\ NestingOf(t) = "mismatch"
       /\ th[t].status = "raised" /\ th[t].exc.type = "InvalidBlock"
       /\ th[t].ev.tok.name \in DOMAIN heap[th[t].root]

\* C15 witness: a mismatched close raised InvalidBlock with the block's name
\* unbound
C15_UnboundMismatchReached ==
    \E t \in Threads :
       /\ MatcherRan(t) /\ NestingOf(t) = "mismatch"
       /\ th[t].status = "raised" /\ th[t].exc.type = "InvalidBlock"
       /\ th[t].ev.tok.name \notin DOMAIN heap[th[t].root]

\* C15 witness: a block never closed raised InvalidBlock, its name bound
C15_BoundEofReached ==
    \E t \in Threads :
       /\ MatcherRan(t) /\ NestingOf(t) = "eof"
       /\ th[t].status = "raised" /\ th[t].exc.type = "InvalidBlock"
       /\ th[t].ev.tok.name \in DOMAIN heap[th[t].root]

\* C15 witness: a block never closed raised InvalidBlock, its name unbound
C15_UnboundEofReached ==
    \E t \in Threads :
       /\ MatcherRan(t) /\ NestingOf(t) = "eof"
       /\ th[t].status = "raised" /\ th[t].exc.type = "InvalidBlock"
       /\ th[t].ev.tok.name \notin DOMAIN heap[th[t].root]

\* C15 witness: a nested block was open when the input ended
C15_NestedEofReached ==
    \E t \in Threads :
       /\ MatcherRan(t) /\ NestingOf(t) = "eof"
       /\ th[t].status = "raised"
       /\ \E i \in TokenStarts(streams[th[t].ev.s].text, th[t].ev.tok.end) :
             IsOpenAt(streams[th[t].ev.s].text, i)

\* the first block-close that ends the search
FirstStop(text, from, name) ==
    CHOOSE c \in Stops(text, from, name) : \A o \in Stops(text, from, name) : c <= o

\* the names of the blocks still open before the token at offset c, the
\* sought block's included
OpenNamesBefore(text, from, name, c) ==
    {name} \cup
    {NameAt(text, m) : m \in
       {m \in TokenStarts(text, from) :
          /\ m < c /\ IsOpenAt(text, m)
          /\ \A j \in TokenStarts(text, from) :
                (m < j /\ j < c /\ IsCloseAt(text, j)) =>
                   DepthBefore(text, from, j) - 1 > DepthBefore(text, from, m)}}

\* the search ended at a close that names an enclosing block while an inner
\* block was still open
ClosedOutOfOrder(t) ==
    LET text == streams[th[t].ev.s].text
        from == th[t].ev.tok.end
        name == th[t].ev.tok.name
    IN /\ MatcherRan(t)
       /\ Nesting(text, from, name) = "mismatch"
       /\ NameAt(text, FirstStop(text, from, name))
             \in OpenNamesBefore(text, from, name, FirstStop(text, from, name))

\* C16 (as claimed): rendering a template whose blocks are closed out of
\* order, as {{#block}}{{#otherblock}}{{/block}}{{/otherblock}}, raises
\* InvalidToken.
C16_OutOfOrderRaisesInvalidToken ==
    \A t \in Threads :
       ClosedOutOfOrder(t) =>
          th[t].status = "raised" /\ th[t].exc.type = "InvalidToken"

\* what the code does: blocks closed out of order raise InvalidBlock, as
\* every other mismatched close does
C16_OutOfOrderRaisesInvalidBlock ==
    \A t \in Threads :
       ClosedOutOfOrder(t) =>
          th[t].status = "raised" /\ th[t].exc.type = "InvalidBlock"

\* {{#a}}{{#b}}{{/a}}{{/b}} has raised
C16_OutOfOrderReached ==
    \E t \in Threads : ClosedOutOfOrder(t) /\ th[t].ev.tok.name = <<"a">>

\* the last step was __Render meeting a block-close token: no block of this
\* stream is open for it, since the close of an open block is consumed by
\* the matcher
StrayClose(t) == th[t].ev.op = "invalid" /\ th[t].ev.tok.prefix = "/"

\* C17 (as claimed): a block-close token that the renderer meets when no
\* block is open for it raises InvalidBlock.
C17_StrayCloseRaisesInvalidBlock ==
    \A t \in Threads :
       StrayClose(t) => th[t].status = "raised" /\ th[t].exc.type = "InvalidBlock"

\* what the code does: the stray close falls to the last branch of __Render
\* and raises InvalidToken
C17_StrayCloseRaisesInvalidToken ==
    \A t \in Threads :
       StrayClose(t) => th[t].status = "raised" /\ th[t].exc.type = "InvalidToken"

\* a stray close was met after a block that was opened and closed
C17_AfterBlockReached ==
    \E t \in Threads : StrayClose(t) /\ th[t].ev.tok.start > 6

(***************************************************************************)
(* Dotted paths                                                            *)
(***************************************************************************)
\* a value or self-reference token with a dotted path and no formatters:
\* a.b.c, or .b
PathToken(tok) ==
    /\ tok.prefix = NoPrefix /\ tok.formatters = <<>>
    /\ Len(tok.name) >= 2
    /\ \E k \in 1..Len(tok.name) : tok.name[k] = "."
\* the root name of the path: '.' for a self-reference
PathRoot(tok) == IF tok.name[1] = "." THEN <<".">> ELSE Split(tok.name, ".")[1]
\* the components after the root
PathRest(tok) == Tail(Split(tok.name, "."))

\* one component resolved against a value v: [n] on a sequence or a string,
\* an attribute of v (one set on an object, or one the type of v has), a key
\* of a mapping; it fails when the key and the attribute are absent or the
\* index is out of range, as every name that is no attribute does on None,
\* on a scalar, on a method and on a type
Resolve(v, c, ns, build) ==
    IF c = <<>> THEN [ok |-> FALSE, v |-> NoneV]
    ELSE IF c[1] = "[" /\ c[Len(c)] = "]"
    THEN LET d == SubSeq(c, 2, Len(c) - 1)
             n == IF v.t \in {"list", "tuple"} THEN Len(v.l)
                  ELSE IF v.t = "str" THEN Len(v.s)
                  ELSE IF v.t = "text" THEN v.n
                  ELSE 0
             i == IF IntOk(d) THEN (IF IntOf(d) < 0 THEN IntOf(d) + n ELSE IntOf(d)) ELSE -1
         IN IF v.t = "type" /\ IntOk(d) /\ Subscript(v, 0).ok
            THEN [ok |-> TRUE, v |-> [t |-> "GenericAlias", T |-> v.T, i |-> IntOf(d)]]
            ELSE IF i < 0 \/ i >= n THEN [ok |-> FALSE, v |-> NoneV]
            ELSE IF v.t \in {"list", "tuple"} THEN [ok |-> TRUE, v |-> v.l[i + 1]]
            ELSE IF v.t = "text" THEN [ok |-> TRUE, v |-> TextV(1)]
            ELSE [ok |-> TRUE, v |-> StrV(<<v.s[i + 1]>>)]
    ELSE IF v.t = "obj" /\ c \in DOMAIN heap[v.a] /\ c \notin {<<"_", "_", "d", "i", "c", "t", "_", "_">>,
                                                      <<"_", "_", "c", "l", "a", "s", "s", "_", "_">>,
                                                      <<"_", "_", "w", "e", "a", "k", "r", "e", "f", "_", "_">>}
    THEN [ok |-> TRUE, v |-> heap[v.a][c]]
    ELSE IF HasAttr(v, c, heap, ns, build)
    THEN [ok |-> TRUE, v |-> GetAttr(v, c, heap, ns, build).v]
    ELSE IF v.t = "ref" /\ c \in DOMAIN heap[v.a]
    THEN [ok |-> TRUE, v |-> heap[v.a][c]]
    ELSE IF v.t = "mappingproxy" /\ Own(v.T, c) # <<>>
    THEN [ok |-> TRUE, v |-> Raw(v.T, Own(v.T, c)[1], build)]
    ELSE IF v.t = "mappingproxy" /\ v.T = "Item" /\ c \in ns
    THEN [ok |-> TRUE, v |-> [t |-> "dict"]]
    ELSE [ok |-> FALSE, v |-> NoneV]

RECURSIVE ResolvePath(_, _, _, _, _)
\* the components cs[k..] resolved one after the other from v; a class asked
\* for its annotations has them from then on
ResolvePath(v, cs, k, ns, build) ==
    IF k > Len(cs) THEN [ok |-> TRUE, v |-> v]
    ELSE CHOOSE result \in
           { IF ~r.ok THEN [ok |-> FALSE, v |-> NoneV]
             ELSE ResolvePath(r.v, cs, k + 1, after, build) :
               r \in {Resolve(v, cs[k], ns, build)},
               after \in {IF v.t = "type" /\ v.T = "Item" /\ cs[k] = <<"_", "_", "a", "n", "n", "o", "t", "a", "t", "i", "o", "n", "s", "_", "_">>
                          THEN ns \cup {cs[k]} ELSE ns} } : TRUE

\* the step expands a dotted token in thread t
ExpandsPath(t) ==
    /\ th'[t].ev.op = "variable" /\ th'[t].ev # th[t].ev
    /\ PathToken(th'[t].ev.tok)

\* what C18 says of such a step, from the context stack before it
PathAllOrError(t) ==
    LET tok == th'[t].ev.tok
        B == Binders(PathRoot(tok), th[t].context)
    IN IF B = {}
       THEN /\ th'[t].status = "running"
            /\ th'[t].ev.text = <<>>
            /\ th'[t].out = th[t].out
       ELSE LET w == ResolvePath(Bound(t, Innermost(B), PathRoot(tok)), PathRest(tok), 1, namespace, input.build)
            IN IF ~w.ok
               THEN /\ th'[t].status = "raised"
                    /\ th'[t].exc = TemplateExc("TemplateException", tok.position)
               ELSE IF ~StrOk(w.v)
               THEN th'[t].status = "opaque"
               ELSE /\ th'[t].status = "running"
                    /\ th'[t].ev.text = (IF IsNone(w.v) THEN <<>> ELSE PyStr(w.v))

\* C18: once the root name of a dotted token is bound in some frame, the
\* path is resolved from the innermost frame that binds it: a component that
\* cannot be resolved raises TemplateException at the token's position, with
\* no empty output and no fallback to an outer frame; a path that resolves
\* writes str of the value reached; only a root bound in no frame writes
\* nothing.
C18_PathAllOrError ==
    [][\A t \in Threads : ExpandsPath(t) => PathAllOrError(t)]_vars

\* C18 witness: {{#a}}{{c.y}}{{/a}} with c bound to {} in the frame of a and
\* to {'y': 'o'} in the root has raised TemplateException
C18_Witness ==
    \E t \in Threads :
       /\ th[t].status = "raised" /\ th[t].ev.op = "variable"
       /\ th[t].exc.type = "TemplateException"
       /\ th[t].ev.tok.name = <<"c", ".", "y">>
       /\ th[t].ev.frame = 2
       /\ <<"c">> \in DOMAIN heap[th[t].root]
       /\ <<"y">> \in DOMAIN heap[heap[th[t].root][<<"c">>].a]

\* C18 witness: {{a.b.x}} with a.b bound to None has raised: x was looked
\* up in None
C18_NoneValueReached ==
    \E t \in Threads :
       /\ th[t].status = "raised" /\ th[t].ev.op = "variable"
       /\ th[t].exc.type = "TemplateException"
       /\ th[t].ev.tok.name = <<"a", ".", "b", ".", "x">>
       /\ <<"a">> \in DOMAIN heap[th[t].root]
       /\ heap[th[t].root][<<"a">>].t = "ref"
       /\ <<"b">> \in DOMAIN heap[heap[th[t].root][<<"a">>].a]
       /\ IsNone(heap[heap[th[t].root][<<"a">>].a][<<"b">>])

\* C18 witness: a path of two components resolved and its value was written
C18_ResolvedReached ==
    \E t \in Threads :
       /\ th[t].status = "running" /\ th[t].ev.op = "variable"
       /\ PathToken(th[t].ev.tok) /\ Len(PathRest(th[t].ev.tok)) = 2
       /\ th[t].ev.text # <<>>

\* C18 witness: the root of a dotted token was bound in no frame
C18_RootUnboundReached ==
    \E t \in Threads :
       /\ th[t].status = "running" /\ th[t].ev.op = "variable"
       /\ PathToken(th[t].ev.tok)
       /\ Binders(PathRoot(th[t].ev.tok), th[t].context) = {}

\* C18 witness: a self-reference with a path, {{.x}}, was resolved
C18_SelfPathReached ==
    \E t \in Threads :
       /\ th[t].status = "running" /\ th[t].ev.op = "variable"
       /\ PathToken(th[t].ev.tok) /\ th[t].ev.tok.name[1] = "."
       /\ th[t].ev.text # <<>>

\* C18 witness: an index out of range has raised
C18_IndexReached ==
    \E t \in Threads :
       /\ th[t].status = "raised" /\ th[t].ev.op = "variable"
       /\ th[t].exc.type = "TemplateException"
       /\ PathToken(th[t].ev.tok)
       /\ th[t].ev.tok.name[Len(th[t].ev.tok.name)] = "]"

\* C18 witness: {{x.split.__doc__.[592]}} has raised on a build whose
\* docstring of str.split has 590 characters
C18_BuildReached ==
    \E t \in Threads :
       /\ th[t].status = "raised" /\ th[t].ev.op = "variable"
       /\ th[t].exc.type = "TemplateException"
       /\ th[t].ev.tok.name = <<"x", ".", "s", "p", "l", "i", "t", ".", "_", "_", "d", "o", "c", "_", "_", ".", "[", "5", "9", "2", "]">>
       /\ input.build.split = 0

(***************************************************************************)
(* Includes                                                                *)
(***************************************************************************)
RECURSIVE ActiveFrames(_, _)
\* the frames of the block instances being rendered, outermost first: one for
\* each block of stack[k..] that has begun an instance and not ended it
ActiveFrames(stack, k) ==
    IF k > Len(stack) THEN <<>>
    ELSE IF /\ stack[k].k = "block" /\ stack[k].parts # <<>>
            /\ ~stack[k].parts[Len(stack[k].parts)].done
    THEN <<stack[k].parts[Len(stack[k].parts)].frame>> \o ActiveFrames(stack, k + 1)
    ELSE ActiveFrames(stack, k + 1)

\* the context stack is the root frame and the frames of the block instances
\* being rendered: the render of an included template adds none
ContextOfBlocks(t) ==
    th[t].status = "running" =>
       th[t].context = <<th[t].root>> \o ActiveFrames(th[t].stack, 1)

\* the template with the included texts written in place of its include
\* tokens was rendered, on an equal context, after the template itself
InlinedRendered(t) == th[t].inlined # <<>>

\* both renders returned the same text, or both raised
SameAsInlined(t) ==
    /\ th[t].inlined[1].ok = th[t].log[1].ok
    /\ th[t].inlined[1].text = th[t].log[1].text

\* the step enters or leaves the render of an included template
IncludeStep(t) ==
    /\ th'[t].ev.op \in {"include", "includeEnd"} /\ th'[t].ev # th[t].ev
    /\ th'[t].status = "running"

\* C19: an include token at any block depth renders the included template on
\* the includer's context stack: the first Render returns what the template
\* with the included text written in place of the include token returns on
\* an equal context, and the context stack has the same frames after the
\* include as before it (the include pushes and pops no frame, the context
\* stack being at every moment the frames of the block instances in
\* progress).
C19_IncludeAsInlined ==
    /\ [](\A t \in Threads :
            /\ ContextOfBlocks(t)
            /\ InlinedRendered(t) => SameAsInlined(t))
    /\ [][\A t \in Threads : IncludeStep(t) => th'[t].context = th[t].context]_vars

\* C19 witness: {{#b}}{{>item}}{{/b}} and {{#b}}{{item}}{{/b}} have both
\* returned 1w, the include rendered in the frame of each instance of b
C19_Witness ==
    \E t \in Threads :
       /\ InlinedRendered(t)
       /\ input.template = <<"{", "{", "#", "b", "}", "}", "{", "{", ">", "i", "t", "e",
                             "m", "}", "}", "{", "{", "/", "b", "}", "}">>
       /\ th[t].log[1].ok /\ th[t].log[1].text = <<"1", "w">>
       /\ th[t].inlined[1].text = <<"1", "w">>

\* C19 witness: an included template has returned inside a block instance
C19_IncludeEndInBlockReached ==
    \E t \in Threads :
       /\ th[t].ev.op = "includeEnd" /\ th[t].status = "running"
       /\ Len(th[t].context) = 2

\* C19 witness: an included block, {{>block}}, was rendered inside a block
\* instance, three frames deep
C19_IncludedBlockReached ==
    \E t \in Threads :
       /\ th[t].status = "running" /\ Len(th[t].context) = 3
       /\ \E k \in 1..Len(th[t].stack) :
             th[t].stack[k].k = "render" /\ ~th[t].stack[k].handler

(***************************************************************************)
(* Render called again                                                     *)
(***************************************************************************)
\* C20 (as claimed): when Render returns, a second Render on the same
\* Template with the same context object returns the identical string.
C20_RenderIdempotent ==
    \A t \in Threads :
       (Len(th[t].log) >= 2 /\ th[t].log[1].ok) => th[t].log[2] = th[t].log[1]

\* the second Render returned another string than the first
C20_DifferentReached ==
    \E t \in Threads :
       /\ Len(th[t].log) >= 2 /\ th[t].log[1].ok /\ th[t].log[2].ok
       /\ th[t].log[2].text # th[t].log[1].text

\* what the code keeps: Render is idempotent on the templates that test no
\* iteration marker (the name of no block has a '#' in it); the Template
\* itself keeps nothing, its stream being reset when Render returns
C20_IdempotentWithoutMarkerTests ==
    \A t \in Threads :
       (/\ Len(th[t].log) >= 2 /\ th[t].log[1].ok
        /\ \A i \in TokenStarts(input.template, 0) :
              \A k \in (i + 4)..Len(input.template) : input.template[k] # "#") =>
          th[t].log[2] = th[t].log[1]

(***************************************************************************)
(* The stream of the Template between passes                               *)
(***************************************************************************)
\* the last step began a pass over a template: Render was called, or an
\* include token was resolved and __RenderTo called
PassBegun(t) ==
    /\ th[t].status = "running"
    /\ th[t].ev.op \in {"Render", "include"}

\* C21 (as claimed): every rendering pass over a Template, a Render call or
\* the expansion of an include, starts reading at offset 0, line 1 of the
\* template's text, whatever happened in earlier passes, an earlier Render
\* that raised included.
C21_PassStartsAtOffsetZero ==
    \A t \in Threads :
       PassBegun(t) =>
          /\ streams[Top(t).s].offset = 0
          /\ streams[Top(t).s].line = 1

\* what the code keeps: the stream is at offset 0 when the first Render
\* begins, when Render begins after a Render that returned, and when a
\* Template the handler has just made is included
C21_PassStartsAtOffsetZeroAfterReturn ==
    \A t \in Threads :
       (PassBegun(t) /\ \A k \in 1..Len(th[t].log) : th[t].log[k].ok) =>
          /\ streams[Top(t).s].offset = 0
          /\ streams[Top(t).s].line = 1

\* Render began on a stream that an earlier Render, which raised, had left
\* past offset 0
C21_AfterRaiseReached ==
    \E t \in Threads :
       /\ PassBegun(t) /\ th[t].ev.op = "Render"
       /\ Len(th[t].log) = 1 /\ ~th[t].log[1].ok
       /\ streams[Top(t).s].offset > 0

(***************************************************************************)
(* Two Render calls on one Template at the same time                       *)
(***************************************************************************)
\* two callers of Render on the same Template instance
ConcurrentThreads == {1, 2}
\* the longest template two callers render at the same time
MaxConcurrentLen == 7
\* the templates of text and value tokens, and the contexts of one mapping
ConcurrentTemplates ==
    {tp \in Templates :
       /\ Len(tp) <= MaxConcurrentLen
       /\ \A k \in 1..Len(tp) : tp[k] \notin {"#", "!", "/", "_", ">", ":", "."}}
ConcurrentContexts == {c \in Contexts : Len(c) = 1}

\* the Template is built once; each caller has a context of its own (the
\* second an equal, separate one) and no render has begun
InitConcurrent ==
    /\ \E template \in ConcurrentTemplates, context \in ConcurrentContexts,
             build \in Builds :
          \* the builds differ in docstrings only: a template that reads none
          \* is rendered on one build
          /\ \/ \E k \in 1..(Len(template) - 6) :
                   SubSeq(template, k, k + 6) = <<"_", "_", "d", "o", "c", "_", "_">>
             \/ build = [subtype |-> 13, split |-> 0, staticmethod |-> 1]
          /\ input = [template |-> template, context |-> context, build |-> build]
          /\ heap = context \o ContextCopy(context)
          /\ streams = <<TextStream(template), TextStream(InlinedTemplate(template))>>
    /\ namespace = {}
    /\ th = [t \in ConcurrentThreads |->
               [status |-> "idle", stack |-> <<>>, context |-> <<>>, out |-> <<>>,
                exc |-> NoExc, log |-> <<>>, inlined |-> <<>>, renders |-> 0,
                root |-> 1, tpl |-> 1,
                ev |-> Event("none", NoToken, <<>>)]]

\* A thread is switched at the entry of a function and at the head of a
\* loop, so every method of the TextStream runs in one piece and another
\* thread can run between any two of them.  The frame of __Render says
\* which call of a method of self.__input comes next (pc) and holds the
\* locals of __ReadToken: token, start and startPosition.
ConcurrentFrame(pc, token, start, startPosition) ==
    [k |-> "render", s |-> 1, handler |-> TRUE, pc |-> pc, token |-> token,
     start |-> start, startPosition |-> startPosition]

\* the frame at the head of the loop of __Render
LoopHead == ConcurrentFrame("IsAtEnd", <<>>, 0, Pos(0, 0))

\* thread t is about to make the call pc
At(t, pc) == InRender(t) /\ Top(t).pc = pc

\* Render(context), lines 828-831, called by thread t with its own context,
\* its own list [context] and its own output; self.__input is the one stream
\* of the Template
RenderConcurrentCall(t) ==
    /\ th[t].status = "idle"
    /\ th' = [th EXCEPT ![t] =
                [@ EXCEPT !.status = "running", !.renders = @ + 1,
                          !.root = (t - 1) * Len(input.context) + 1, !.tpl = 1,
                          !.context = <<(t - 1) * Len(input.context) + 1>>,
                          !.out = << <<>> >>,
                          !.stack = <<LoopHead>>, !.exc = NoExc,
                          !.ev = Event("Render", NoToken, <<>>)]]
    /\ UNCHANGED <<input, heap, streams, namespace>>

\* line 796: while not inputStream.IsAtEnd()
ConcurrentIsAtEnd(t) ==
    /\ At(t, "IsAtEnd")
    /\ th' = [th EXCEPT ![t].stack[1].pc =
                IF IsAtEnd(streams[1]) THEN "Reset" ELSE "Get"]
    /\ UNCHANGED <<input, heap, streams, namespace>>

\* lines 797-799 and 819-821: current = inputStream.Get(); a current other
\* than '{' is written, and write(None) is a TypeError
ConcurrentGet(t) ==
    /\ At(t, "Get")
    /\ \E g \in {Get(streams[1])} :
          /\ streams' = [streams EXCEPT ![1] = g.st]
          /\ th' = [th EXCEPT ![t] =
                      IF g.c = "{" THEN [@ EXCEPT !.stack[1].pc = "Peek"]
                      ELSE IF g.c = EOS
                      THEN Raised(@, PyExc("TypeError"), Event("char", NoToken, <<>>))
                      ELSE [@ EXCEPT !.out = Write(@, <<g.c>>),
                                     !.stack[1].pc = "IsAtEnd",
                                     !.ev = Event("char", NoToken, <<g.c>>)]]
    /\ UNCHANGED <<input, heap, namespace>>

\* lines 799 and 819-821: inputStream.Peek() == '{'; if not, the '{' read
\* is written
ConcurrentPeek(t) ==
    /\ At(t, "Peek")
    /\ th' = [th EXCEPT ![t] =
                IF Peek(streams[1]) = "{" THEN [@ EXCEPT !.stack[1].pc = "Unget"]
                ELSE [@ EXCEPT !.out = Write(@, <<"{">>),
                               !.stack[1].pc = "IsAtEnd",
                               !.ev = Event("char", NoToken, <<"{">>)]]
    /\ UNCHANGED <<input, heap, streams, namespace>>

\* line 800: inputStream.Unget()
ConcurrentUnget(t) ==
    /\ At(t, "Unget")
    /\ IF UngetOk(streams[1])
       THEN /\ streams' = [streams EXCEPT ![1] = Unget(@)]
            /\ th' = [th EXCEPT ![t].stack[1].pc = "GetOffset"]
       ELSE /\ streams' = streams
            /\ th' = [th EXCEPT ![t] =
                        Raised(@, PyExc("AssertionError"),
                               Event("token", NoToken, <<>>))]
    /\ UNCHANGED <<input, heap, namespace>>

\* __ReadToken, line 735: start = inputStream.GetOffset()
ConcurrentGetOffset(t) ==
    /\ At(t, "GetOffset")
    /\ th' = [th EXCEPT ![t].stack[1] =
                [@ EXCEPT !.pc = "GetPosition", !.start = streams[1].offset]]
    /\ UNCHANGED <<input, heap, streams, namespace>>

\* line 736: startPosition = inputStream.GetPosition()
ConcurrentGetPosition(t) ==
    /\ At(t, "GetPosition")
    /\ th' = [th EXCEPT ![t].stack[1] =
                [@ EXCEPT !.pc = "Skip", !.startPosition = GetPosition(streams[1])]]
    /\ UNCHANGED <<input, heap, streams, namespace>>

\* line 738: inputStream.Skip(2)
ConcurrentSkip(t) ==
    /\ At(t, "Skip")
    /\ IF SkipOk(streams[1], 2)
       THEN /\ streams' = [streams EXCEPT ![1] = Skip(@, 2)]
            /\ th' = [th EXCEPT ![t].stack[1].pc = "TokenGet"]
       ELSE /\ streams' = streams
            /\ th' = [th EXCEPT ![t] =
                        Raised(@, PyExc("AssertionError"),
                               Event("token",
                                     [NoToken EXCEPT !.start = Top(t).start,
                                                     !.position = Top(t).startPosition],
                                     <<>>))]
    /\ UNCHANGED <<input, heap, namespace>>

\* lines 740-746: c = inputStream.Get() in the loop of __ReadToken
ConcurrentTokenGet(t) ==
    /\ At(t, "TokenGet")
    /\ \E g \in {Get(streams[1])} :
          /\ streams' = [streams EXCEPT ![1] = g.st]
          /\ th' = [th EXCEPT ![t].stack[1] =
                      IF g.c = EOS THEN [@ EXCEPT !.pc = "EndOfFile"]
                      ELSE IF g.c # "}" THEN [@ EXCEPT !.token = @ \o <<g.c>>]
                      ELSE [@ EXCEPT !.pc = "TokenPeek"]]
    /\ UNCHANGED <<input, heap, namespace>>

\* line 748: inputStream.Peek() == '}'
ConcurrentTokenPeek(t) ==
    /\ At(t, "TokenPeek")
    /\ th' = [th EXCEPT ![t].stack[1].pc =
                IF Peek(streams[1]) = "}" THEN "TokenClose" ELSE "Delimiter"]
    /\ UNCHANGED <<input, heap, streams, namespace>>

\* line 749: inputStream.Get()
ConcurrentTokenClose(t) ==
    /\ At(t, "TokenClose")
    /\ streams' = [streams EXCEPT ![1] = Get(@).st]
    /\ th' = [th EXCEPT ![t].stack[1].pc = "TokenEnd"]
    /\ UNCHANGED <<input, heap, namespace>>

\* lines 750-751 and 803-804: end = inputStream.GetOffset(), the Token is
\* made and, a value token, expanded against the context of the thread
ConcurrentTokenEnd(t) ==
    /\ At(t, "TokenEnd")
    /\ \E made \in {Token(Top(t).token, Top(t).start, streams[1].offset,
                          Top(t).startPosition)} :
          IF ~made.ok
          THEN /\ th' = [th EXCEPT ![t] =
                          Raised(@, made.exc,
                                 Event("token",
                                       [NoToken EXCEPT !.start = Top(t).start,
                                                       !.position = Top(t).startPosition],
                                       <<>>))]
               /\ UNCHANGED namespace
          ELSE /\ ToVariable(made.tok) \in {TRUE}
               /\ \E r \in {Expand(made.tok, th[t].context, heap, namespace, input.build)} :
                     LET ev == [Event("variable", made.tok, r.text)
                                  EXCEPT !.at = OutLen(t), !.frame = r.frame]
                     IN /\ th' = [th EXCEPT ![t] =
                                   CASE r.kind = "raise" -> Raised(@, r.exc, ev)
                                     [] r.kind = "opaque" ->
                                          [@ EXCEPT !.status = "opaque", !.stack = <<>>,
                                                    !.ev = ev]
                                     [] r.kind = "skip" ->
                                          [@ EXCEPT !.stack = <<LoopHead>>, !.ev = ev]
                                     [] OTHER ->
                                          [@ EXCEPT !.out = Write(@, r.text),
                                                    !.stack = <<LoopHead>>, !.ev = ev]]
                        /\ namespace' = r.ns
    /\ UNCHANGED <<input, heap, streams>>

\* lines 742-744 and 753-755: InvalidToken is raised with
\* inputStream.GetPosition(), at the end of the text or after a single '}'
ConcurrentInvalidToken(t) ==
    /\ At(t, "EndOfFile") \/ At(t, "Delimiter")
    /\ th' = [th EXCEPT ![t] =
                Raised(@, TemplateExc("InvalidToken", GetPosition(streams[1])),
                       Event("token",
                             [NoToken EXCEPT !.start = Top(t).start,
                                             !.position = Top(t).startPosition],
                             <<>>))]
    /\ UNCHANGED <<input, heap, streams, namespace>>

\* lines 832-833: __Render has returned; self.__input.Reset() and the
\* output is returned
ConcurrentReset(t) ==
    /\ At(t, "Reset")
    /\ streams' = [streams EXCEPT ![1] = Reset(@)]
    /\ th' = [th EXCEPT ![t] =
                [@ EXCEPT !.status = "returned", !.stack = <<>>, !.context = <<>>,
                          !.out = <<>>,
                          !.log = Append(@, [ok |-> TRUE, text |-> th[t].out[1],
                                             exc |-> NoExc]),
                          !.ev = Event("return", NoToken, th[t].out[1])]]
    /\ UNCHANGED <<input, heap, namespace>>

\* the calls of the two threads interleave; these templates hold text and
\* value tokens only, so the steps of __Render are those of lines 796-804
\* and 819-821, with __ReadToken
NextConcurrent ==
    \E t \in ConcurrentThreads :
       \/ RenderConcurrentCall(t)
       \/ ConcurrentIsAtEnd(t)
       \/ ConcurrentGet(t)
       \/ ConcurrentPeek(t)
       \/ ConcurrentUnget(t)
       \/ ConcurrentGetOffset(t)
       \/ ConcurrentGetPosition(t)
       \/ ConcurrentSkip(t)
       \/ ConcurrentTokenGet(t)
       \/ ConcurrentTokenPeek(t)
       \/ ConcurrentTokenClose(t)
       \/ ConcurrentTokenEnd(t)
       \/ ConcurrentInvalidToken(t)
       \/ ConcurrentReset(t)

SpecConcurrent == InitConcurrent /\ [][NextConcurrent]_vars

\* the threads that have begun a Render
Callers == {t \in DOMAIN th : th[t].renders > 0}

\* a Render that runs alone on a template without tokens returns the
\* template's text
AloneTextRendersItself ==
    \A t \in DOMAIN th :
       (Callers = {t} /\ th[t].status = "returned" /\ NoBrace(input.template)) =>
          th[t].log[1] = [ok |-> TRUE, text |-> input.template, exc |-> NoExc]

\* C22 (as claimed): two Render calls on the same Template, each with its own
\* context, context stack and output, whose steps interleave arbitrarily,
\* each return the string they return when run alone; for a template without
\* tokens that string is the template's text.
C22_ConcurrentRendersAsAlone ==
    \A t \in DOMAIN th :
       (th[t].status = "returned" /\ NoBrace(input.template)) =>
          th[t].log[1] = [ok |-> TRUE, text |-> input.template, exc |-> NoExc]

\* on 'text' the first call has returned tx, the second having read e and t
\* in between; the stream was reset under the second call, which is now back
\* at offset 0 with et written
C22_SplitReached ==
    /\ DOMAIN th = ConcurrentThreads
    /\ input.template = <<"t", "e", "x", "t">>
    /\ th[1].status = "returned" /\ th[1].log[1].text = <<"t", "x">>
    /\ th[2].status = "running" /\ th[2].out = << <<"e", "t">> >>
    /\ streams[1].offset = 0

\* both calls have returned, neither with the text of the template
C22_BothWrongReached ==
    /\ DOMAIN th = ConcurrentThreads
    /\ NoBrace(input.template)
    /\ \A t \in DOMAIN th :
          th[t].status = "returned" /\ th[t].log[1].text # input.template

(***************************************************************************)
(* The position carried by an exception                                    *)
(***************************************************************************)
\* the 1-based line of the template's text at offset n
LineAt(n) == 1 + Cardinality({j \in 1..n : input.template[j] = "\n"})

\* the offsets at which text lies in the text of the template
OffsetsOf(text) ==
    {i \in 0..(Len(input.template) - Len(text)) :
       SubSeq(input.template, i + 1, i + Len(text)) = text}

\* the first Render raised a TemplateException while it read a stream whose
\* text is one part of the template's text: the template itself, or the body
\* of a block
RaisedInTemplateText(t) ==
    /\ th[t].status = "raised" /\ th[t].tpl = 1 /\ th[t].renders = 1
    /\ th[t].exc.line > 0
    /\ streams[th[t].ev.s].text # <<>>
    /\ Cardinality(OffsetsOf(streams[th[t].ev.s].text)) = 1

\* the lines of the template between the start of the token of the step that
\* raised and the place where its stream stopped
LinesOfError(t) ==
    LET base == CHOOSE i \in OffsetsOf(streams[th[t].ev.s].text) : TRUE
    IN {LineAt(base + k) : k \in th[t].ev.tok.start..streams[th[t].ev.s].offset}

\* C23 (as claimed): the line carried by a TemplateException is the 1-based
\* line of the template's text at which the error was detected, at the top
\* level and inside the body of a block.
C23_LineOfTemplateText ==
    \A t \in Threads :
       RaisedInTemplateText(t) => th[t].exc.line \in LinesOfError(t)

\* what the code keeps: the line is right for the errors detected in the
\* template's own stream, which are those of the top level and of the block
\* matcher of a top-level block
C23_LineOfTopLevelText ==
    \A t \in Threads :
       (RaisedInTemplateText(t) /\ th[t].ev.s = 1) =>
          th[t].exc.line \in LinesOfError(t)

\* an error on line 2 of the template's own stream was raised with line 2
C23_SecondLineReached ==
    \E t \in Threads :
       /\ RaisedInTemplateText(t) /\ th[t].ev.s = 1
       /\ th[t].exc.line = 2 /\ LinesOfError(t) = {2}

\* an error in the body of a block that begins on line 2 was raised with
\* line 1
C23_BodyLineReached ==
    \E t \in Threads :
       /\ RaisedInTemplateText(t) /\ th[t].ev.s > 2
       /\ th[t].exc.line = 1 /\ LinesOfError(t) = {2}

(***************************************************************************)
(* Termination                                                             *)
(***************************************************************************)
\* a call that has begun goes on: the interpreter runs the thread that
\* renders until Render returns or raises
\* templates without include tokens
TemplatesWithoutInclude ==
    {template \in Templates : \A k \in 1..Len(template) : template[k] # ">"}

InitWithoutInclude ==
    /\ Init
    /\ input.template \in TemplatesWithoutInclude

\* the steps of Render on a template without include tokens
NextWithoutInclude ==
    \E t \in Threads :
       \/ RenderCall(t)
       \/ PassThrough(t)
       \/ TokenError(t)
       \/ DoExpandVariable(t)
       \/ DoNamedCharacter(t)
       \/ InvalidToken(t)
       \/ DoExpandBlock(t)
       \/ BlockInstance(t)
       \/ InstanceReturn(t)
       \/ BlockReturn(t)
       \/ RenderReturn(t)

\* the interpreter keeps executing the call: a step that can be taken is taken
SpecFair ==
    InitWithoutInclude /\ [][NextWithoutInclude]_vars /\ WF_vars(NextWithoutInclude)

Ended(t) == th[t].status \in {"returned", "raised"}

\* the Render has written a value whose text is not computed here (the repr
\* of a method, of a list, of a mapping) and is followed no further
Unfollowed(t) == th[t].status = "opaque"

\* the body of every block being expanded is shorter than the text it was
\* cut from
BodiesShorter(t) ==
    \A k \in 2..Len(th[t].stack) :
       th[t].stack[k].k = "block" =>
          Len(th[t].stack[k].content) < Len(streams[th[t].stack[k - 1].s].text)

\* a step of __Render that is not at the end of its stream and does not
\* raise leaves that stream further on
Consumes(t) ==
    (/\ InRender(t) /\ ~IsAtEnd(CurStream(t))
     /\ th'[t] # th[t] /\ th'[t].status = "running") =>
       streams'[Top(t).s].offset > streams[Top(t).s].offset

\* C24: Render terminates: every step of the renderer consumes at least one
\* character of its stream, every body rendered is shorter than the text
\* around it, and every Render that has begun returns or raises, a malformed
\* template ending in an error.  A Render is followed up to the first value
\* it writes whose text is not computed here.
C24_RenderTerminates ==
    /\ [](\A t \in Threads : BodiesShorter(t))
    /\ [][\A t \in Threads : Consumes(t)]_vars
    /\ \A t \in Threads : (th[t].status = "running") ~> (Ended(t) \/ Unfollowed(t))

\* C24 witness: the first Render of a template whose block is never closed,
\* {{#b}}{{x}}, has ended with InvalidBlock
C24_Witness ==
    \E t \in Threads :
       /\ Ended(t) /\ th[t].renders = 1
       /\ input.template = <<"{", "{", "#", "b", "}", "}", "{", "{", "x", "}", "}">>
       /\ th[t].exc.type = "InvalidBlock"

\* C24 witness: the Render of a block in a block over lists has returned
C24_NestedReturnReached ==
    \E t \in Threads :
       /\ th[t].status = "returned" /\ th[t].renders = 1
       /\ input.template = <<"{", "{", "#", "b", "}", "}", "{", "{", "#", "b", "}", "}",
                             "{", "{", "x", "}", "}", "{", "{", "/", "b", "}", "}",
                             "{", "{", "/", "b", "}", "}">>
       /\ th[t].log[1].text = <<"0", "1", "0", "1">>

(***************************************************************************)
(* The close token the matcher returns                                     *)
(***************************************************************************)
\* __FindBlockEnd returned a token to __ExpandBlock (line 616): the last step
\* handled a block-open token and the matcher did not raise
MatcherReturned(t) ==
    /\ MatcherRan(t)
    /\ ~(th[t].status = "raised" /\ th[t].exc.type = "InvalidBlock")

\* the offsets of the tokens after from that end where the stream of the
\* last step stands: the token the matcher read last
LastRead(t) ==
    {c \in TokenStarts(streams[th[t].ev.s].text, th[t].ev.tok.end) :
       FirstBrace(streams[th[t].ev.s].text, c) + 1 = streams[th[t].ev.s].offset}

\* C25: whenever the block matcher returns a close token for a block-open
\* named N, that token is a block-close named N and the first block-close at
\* which the nesting depth, counting every # and ! open of any name, returns
\* to zero; the assertion of line 619 on the two names therefore never
\* fails: the only AssertionError of __ExpandBlock is Substring's, on an
\* empty body.
C25_MatcherReturnsMatchingClose ==
    \A t \in Threads :
       MatcherReturned(t) =>
          LET text == streams[th[t].ev.s].text
              from == th[t].ev.tok.end
          IN /\ LastRead(t) # {}
             /\ \A c \in LastRead(t) :
                   /\ IsCloseAt(text, c)
                   /\ NameAt(text, c) = th[t].ev.tok.name
                   /\ DepthBefore(text, from, c) = 1
                   /\ \A j \in TokenStarts(text, from) :
                         (j < c /\ IsCloseAt(text, j)) => DepthBefore(text, from, j) > 1
                   /\ (th[t].status = "raised" /\ th[t].exc.type = "AssertionError")
                         => c = from

\* C25 witness: the matcher returned the second {{/b}} for the outer block of
\* {{#b}}{{#b}}{{x}}{{/b}}{{/b}}, past a nested block of the same name
C25_Witness ==
    \E t \in Threads :
       /\ MatcherReturned(t)
       /\ th[t].status = "running"
       /\ th[t].ev.s = 1
       /\ th[t].ev.tok.start = 0
       /\ streams[1].text = <<"{", "{", "#", "b", "}", "}", "{", "{", "#", "b", "}", "}",
                              "{", "{", "x", "}", "}", "{", "{", "/", "b", "}", "}",
                              "{", "{", "/", "b", "}", "}">>
       /\ streams[1].offset = 29
       /\ \E c \in LastRead(t) : c = 23

\* C25 witness: the matcher returned the close of a block that holds a
\* nested block of another name
C25_OtherNameNestedReached ==
    \E t \in Threads :
       /\ MatcherReturned(t)
       /\ th[t].status = "running"
       /\ \E i \in TokenStarts(streams[th[t].ev.s].text, th[t].ev.tok.end) :
             /\ IsOpenAt(streams[th[t].ev.s].text, i)
             /\ NameAt(streams[th[t].ev.s].text, i) # th[t].ev.tok.name
             /\ \E c \in LastRead(t) : i < c

(***************************************************************************)
(* Scanner preconditions                                                   *)
(***************************************************************************)
\* the offset after the token that starts at offset i
EndOfToken(text, i) == FirstBrace(text, i) + 1

\* every token of text is terminated and every block is balanced: each
\* block-open has its close and each block-close has an open block before it
WellFormed(text) ==
    /\ PlainTokensFrom(text, 0)
    /\ \A i \in TokenStarts(text, 0) :
          /\ IsOpenAt(text, i) =>
                Nesting(text, EndOfToken(text, i), NameAt(text, i)) = "found"
          /\ IsCloseAt(text, i) => DepthBefore(text, 0, i) > 1

\* a block-open of text is followed at once by a block-close
HasEmptyBody(text) ==
    \E i \in TokenStarts(text, 0) :
       /\ IsOpenAt(text, i)
       /\ EndOfToken(text, i) \in TokenStarts(text, 0)
       /\ IsCloseAt(text, EndOfToken(text, i))

\* a precondition assertion of TextStream.Substring, Skip or Unget failed
ScannerAssertion(t) ==
    /\ th[t].status = "raised"
    /\ th[t].exc.type = "AssertionError"
    /\ th[t].ev.op # "include"

\* C26 (as claimed): for every template whose tokens are all terminated and
\* whose blocks are all balanced, and for every context, Render never
\* violates a scanner precondition assertion; blocks whose body is empty are
\* covered.
C26_NoScannerAssertion ==
    \A t \in Threads :
       (th[t].tpl = 1 /\ WellFormed(input.template)) => ~ScannerAssertion(t)

\* what the code does: the assertions hold when no block has an empty body
C26_NoScannerAssertionUnlessEmptyBody ==
    \A t \in Threads :
       (th[t].tpl = 1 /\ WellFormed(input.template) /\ ~HasEmptyBody(input.template))
          => ~ScannerAssertion(t)

\* the block {{#b}}{{/b}} with b bound failed the assertion of Substring
C26_EmptyBodyReached ==
    \E t \in Threads :
       /\ ScannerAssertion(t) /\ th[t].tpl = 1 /\ th[t].renders = 1
       /\ input.template = <<"{", "{", "#", "b", "}", "}", "{", "{", "/", "b", "}", "}">>
       /\ th[t].ev.op = "block"

\* a token that ends exactly at the end of a well-formed text was read and
\* Render returned
C26_TokenAtEndReached ==
    \E t \in Threads :
       /\ th[t].status = "returned" /\ th[t].tpl = 1
       /\ WellFormed(input.template)
       /\ Len(input.template) > 0
       /\ input.template[Len(input.template)] = "}"
       /\ \E i \in TokenStarts(input.template, 0) : IsOpenAt(input.template, i)

(***************************************************************************)
(* Context stack discipline                                                *)
(***************************************************************************)
\* the step is the call of __Render by Render (lines 828-831)
RenderStarts(t) == th'[t].ev.op = "Render" /\ th'[t].status = "running"

\* the step begins the body of a block instance (line 702)
InstanceBegins(t) ==
    /\ th[t].status = "running" /\ th'[t].status = "running"
    /\ th'[t].ev.op = "instance"
    /\ Len(th'[t].stack) = Len(th[t].stack) + 1

\* the step ends the body of a block instance (line 725)
InstanceEnds(t) ==
    /\ th[t].status = "running" /\ th'[t].status = "running"
    /\ th'[t].ev.op = "instanceEnd"
    /\ Len(th'[t].stack) = Len(th[t].stack) - 1

\* the step is the normal return of __ExpandBlock
BlockEnds(t) ==
    /\ th[t].status = "running" /\ th'[t].status = "running"
    /\ th'[t].ev.op = "blockEnd"
    /\ Len(th'[t].stack) = Len(th[t].stack) - 1

\* the calls below the one that executes are suspended: their records do not
\* change while the render runs
CallersUnchanged(t) ==
    (th[t].status = "running" /\ th'[t].status = "running") =>
       \A k \in 1..Len(th[t].stack) :
          (k < Len(th[t].stack) /\ k < Len(th'[t].stack)) =>
             th'[t].stack[k] = th[t].stack[k]

\* C27: the context stack has exactly one frame when Render starts; while
\* the body of a block instance is rendered it holds the root frame plus one
\* frame per enclosing block instance, in nesting order, across includes too;
\* each frame pushed is popped once, last-in first-out, so after an
\* __ExpandBlock call that returns normally the stack has the frames it had
\* before the call; the root frame is never popped.
C27_ContextStackDiscipline ==
    /\ [](\A t \in Threads :
            /\ ContextOfBlocks(t)
            /\ th[t].status = "running" =>
                  th[t].context # <<>> /\ th[t].context[1] = th[t].root)
    /\ [][\A t \in Threads :
            /\ RenderStarts(t) => th'[t].context = <<th'[t].root>>
            /\ InstanceBegins(t) =>
                  /\ Len(th'[t].context) = Len(th[t].context) + 1
                  /\ SubSeq(th'[t].context, 1, Len(th[t].context)) = th[t].context
            /\ InstanceEnds(t) =>
                  /\ th'[t].context = Pop(th[t].context)
                  /\ th[t].context[Len(th[t].context)]
                        = Below(t).parts[Len(Below(t).parts)].frame
            /\ BlockEnds(t) =>
                  /\ th'[t].context = th[t].context
                  /\ th'[t].context = <<th[t].root>> \o ActiveFrames(Pop(th[t].stack), 1)
            /\ CallersUnchanged(t)]_vars

\* C27 witness: the body of a block instance inside another block instance
\* is rendered: the stack holds the root and the two instances' frames
C27_Witness ==
    \E t \in Threads :
       /\ InRender(t)
       /\ Len(th[t].context) = 3
       /\ Len(ActiveFrames(th[t].stack, 1)) = 2
       /\ th[t].context[2] # th[t].context[3]

\* C27 witness: an included template is rendered inside a block instance
C27_IncludeInBlockReached ==
    \E t \in Threads :
       /\ InRender(t)
       /\ Len(th[t].stack) > 2
       /\ Below(t).k = "render"
       /\ Len(th[t].context) >= 2

\* C27 witness: a block of two instances has returned and the stack holds
\* the root frame alone
C27_BlockReturnedReached ==
    \E t \in Threads :
       /\ th[t].status = "running"
       /\ th[t].ev.op = "blockEnd"
       /\ th[t].ev.block.n = 2
       /\ th[t].context = <<th[t].root>>

(***************************************************************************)
(* The caller's context after Render                                       *)
(***************************************************************************)
\* the mappings reachable from the context passed to Render: the dicts the
\* caller built
CallerMappings == 1..Len(input.context)

\* Render of the template has returned
RenderReturned(t) == th[t].status = "returned" /\ th[t].tpl = 1 /\ th[t].renders >= 1

\* C28 (as claimed): after Render returns, every mapping reachable from the
\* context passed in has exactly the keys and values it had before the call:
\* no '.' entry and no <blockName>#First / #Separator / #Last entry remains.
C28_CallerContextUnchanged ==
    \A t \in Threads :
       RenderReturned(t) => \A a \in CallerMappings : heap[a] = input.context[a]

\* what the code keeps: the keys the caller wrote keep their values; entries
\* are added, none is removed or overwritten
C28_CallerKeysKept ==
    \A t \in Threads :
       \A a \in CallerMappings :
          \A key \in DOMAIN input.context[a] :
             key \in DOMAIN heap[a] /\ heap[a][key] = input.context[a][key]

\* Render returned and a mapping of the caller holds a '.' entry and an
\* iteration marker
C28_EntriesLeftReached ==
    \E t \in Threads :
       /\ RenderReturned(t) /\ th[t].renders = 1
       /\ \E a \in CallerMappings :
             /\ <<".">> \in DOMAIN heap[a]
             /\ <<".">> \notin DOMAIN input.context[a]
             /\ HasMarker(a, <<"b">>, <<"F", "i", "r", "s", "t">>)

(***************************************************************************)
(* The text of a block instance                                            *)
(***************************************************************************)
RECURSIVE Prefixes(_, _, _)
\* the OnBlockBegin results of formatters k.., in order
Prefixes(formatters, k, isFirst) ==
    IF k > Len(formatters) THEN <<>>
    ELSE OnBlockBegin(formatters[k], isFirst) \o Prefixes(formatters, k + 1, isFirst)

RECURSIVE Suffixes(_, _, _)
\* the OnBlockEnd results of formatters k.., in order
Suffixes(formatters, k, isLast) ==
    IF k > Len(formatters) THEN <<>>
    ELSE OnBlockEnd(formatters[k], isLast) \o Suffixes(formatters, k + 1, isLast)

RECURSIVE Formatted(_, _, _)
\* fk.Format(...f1.Format(text))
Formatted(formatters, k, text) ==
    IF k = 0 THEN text
    ELSE Format(formatters[k], StrV(Formatted(formatters, k - 1, text))).v.s

\* the output stream written to
TopOut(out) == out[Len(out)]

\* the streams below the one written to do not change while a render runs
OutputsBelowUnchanged(t) ==
    (th[t].status = "running" /\ th'[t].status = "running") =>
       \A k \in 1..Len(th[t].out) :
          (k < Len(th[t].out) /\ k < Len(th'[t].out)) => th'[t].out[k] = th[t].out[k]

\* C29: for each instance of a block with block formatters f1..fk, the text
\* appended to the enclosing output is, in this order, the OnBlockBegin
\* results of f1..fk, then fk.Format(...f1.Format(rendered body)), then the
\* OnBlockEnd results of f1..fk; the prefix and the suffix pass through no
\* Format, and the body is rendered into a temporary buffer exactly when
\* k >= 1.
C29_InstanceText ==
    [][\A t \in Threads :
         /\ InstanceBegins(t) =>
               LET f == Top(t)
                   prefix == Prefixes(f.formatters, 1, f.i = 0)
               IN IF f.formatters # <<>>
                  THEN /\ Len(th'[t].out) = Len(th[t].out) + 1
                       /\ TopOut(th'[t].out) = <<>>
                       /\ th'[t].out[Len(th[t].out)] = TopOut(th[t].out) \o prefix
                  ELSE /\ Len(th'[t].out) = Len(th[t].out)
                       /\ TopOut(th'[t].out) = TopOut(th[t].out) \o prefix
         /\ InstanceEnds(t) =>
               LET f == Below(t)
                   suffix == Suffixes(f.formatters, 1, f.i + 1 = f.n)
               IN IF f.formatters # <<>>
                  THEN /\ Len(th'[t].out) = Len(th[t].out) - 1
                       /\ TopOut(th'[t].out) =
                             th[t].out[Len(th[t].out) - 1]
                                \o Formatted(f.formatters, Len(f.formatters),
                                             TopOut(th[t].out))
                                \o suffix
                  ELSE /\ Len(th'[t].out) = Len(th[t].out)
                       /\ TopOut(th'[t].out) = TopOut(th[t].out) \o suffix
         /\ OutputsBelowUnchanged(t)]_vars

\* C29 witness: the first instance of {{#b:separator=NEWLINE:indent=1}} has
\* ended: a tab, the body "0", and the separator, a newline with no tab
\* after it
C29_Witness ==
    \E t \in Threads :
       /\ th[t].status = "running"
       /\ th[t].ev.op = "instanceEnd"
       /\ InBlock(t)
       /\ Len(Top(t).formatters) = 2
       /\ Top(t).i = 1 /\ Top(t).n = 2
       /\ TopOut(th[t].out) = <<"\t", "0", "\n">>

\* C29 witness: the body of an instance of a block with an indent formatter
\* held a newline, which Format indented
C29_BodyIndentedReached ==
    \E t \in Threads :
       /\ th[t].status = "running"
       /\ th[t].ev.op = "instanceEnd"
       /\ InBlock(t)
       /\ Top(t).formatters # <<>>
       /\ \E k \in 1..(Len(TopOut(th[t].out)) - 1) :
             TopOut(th[t].out)[k] = "\n" /\ TopOut(th[t].out)[k + 1] = "\t"

\* C29 witness: an instance of a block without formatters has ended, its
\* body written to the enclosing output directly
C29_NoBufferReached ==
    \E t \in Threads :
       /\ th[t].status = "running"
       /\ th[t].ev.op = "instanceEnd"
       /\ InBlock(t)
       /\ Top(t).formatters = <<>>
       /\ Len(th[t].out) = 1
       /\ TopOut(th[t].out) # <<>>

(***************************************************************************)
(* How the renderer and the matcher classify a token                       *)
(***************************************************************************)
\* the last step was __Render's handling of a token with prefix # or !
BlockPrefixHandled(t) ==
    /\ th[t].ev.op \in {"variable", "block", "skip", "named", "invalid", "include"}
    /\ th[t].ev.tok.prefix \in {"#", "!"}

\* C30 (as claimed): the renderer classifies a token by its prefix alone, as
\* the block matcher does: a token with prefix # or ! is handled as a
\* block-open (its close is located and its body expanded or skipped),
\* whatever its name is, names that begin with '.' included.
C30_BlockByPrefixAlone ==
    \A t \in Threads :
       BlockPrefixHandled(t) => th[t].ev.op \in {"block", "skip"}

\* what the code does: the renderer handles a token with prefix # or ! as a
\* block-open unless its name is empty or begins with '.'
C30_BlockUnlessDotName ==
    \A t \in Threads :
       (/\ BlockPrefixHandled(t)
        /\ th[t].ev.tok.name # <<>>
        /\ th[t].ev.tok.name[1] # ".") => th[t].ev.op \in {"block", "skip"}

\* the renderer expanded {{#.x}} as a variable
C30_DotNameAsVariableReached ==
    \E t \in Threads :
       /\ BlockPrefixHandled(t)
       /\ th[t].ev.op = "variable"
       /\ th[t].ev.tok.prefix = "#"
       /\ th[t].ev.tok.name = <<".", "x">>
       /\ th[t].status = "running"

\* the matcher counted {{#.x}} as a block-open: {{#a}}{{#.x}}{{/a}} raised
\* InvalidBlock at the close of a
C30_MatcherPushedDotNameReached ==
    \E t \in Threads :
       /\ MatcherRan(t) /\ NestingOf(t) = "mismatch"
       /\ th[t].status = "raised" /\ th[t].exc.type = "InvalidBlock"
       /\ th[t].ev.tok.name = <<"a">>
       /\ \E i \in TokenStarts(streams[th[t].ev.s].text, th[t].ev.tok.end) :
             /\ IsOpenAt(streams[th[t].ev.s].text, i)
             /\ NameAt(streams[th[t].ev.s].text, i) = <<".", "x">>

====
